---- MODULE Spec2Model ----
(***************************************************************************)
(* Geospatial aggregation and administrative-boundary resolution of the    *)
(* journey-map repository (src/utils).                                     *)
(*                                                                         *)
(* Text.  A JavaScript string is a sequence of characters; a character is  *)
(* written as a short ASCII token, because the module's strings are ASCII: *)
(*   "k1".."k9" 一..九   "k10" 十   "k100" 百   "chou" 丁   "me" 目         *)
(*   "fw0".."fw9" ０..９ (full width)   "0".."9" ASCII digits               *)
(*   "sp" ASCII space   "isp" ideographic space U+3000   "ban" 番           *)
(*   "to" 都  "dou" 道  "fu" 府  "ken" 県                                   *)
(*   "shi" 市  "ku" 区  "machi" 町  "mura" 村  "gun" 郡                     *)
(*   "tou" 東 "kyou" 京 "naka" 中 "no" 野 "ya" 弥 "yoi" 生 "oo" 大          *)
(*   "saka" 阪 "shin" 新 "juku" 宿                                          *)
(* null is the one-element sequence Null, which is no string.              *)
(***************************************************************************)
EXTENDS Integers, Sequences, FiniteSets

VARIABLES
  kanji,      \* kanjiToNumber: the argument
  kanjiNum,   \* kanjiToNumber: the value returned
  kanjiPc,    \* "call" before kanjiToNumber has run, "return" after
  s,          \* normalizeChome: the argument
  x,          \* normalizeChome: the value returned, Pending before the call
  photos,     \* the observations both aggregations are built from
  gridStats,  \* buildPhotoGrid: the GridStats returned
  gridPc,     \* "call" before buildPhotoGrid has run, "return" after
  gridOrigin, \* buildPhotoGrid: its locals originLat, originLng, cellSizeLat, cellSizeLng
  adminStats, \* buildAdminBoundaryStats: the AdminBoundaryStats returned
  adminPc,    \* "call" before buildAdminBoundaryStats has run, "return" after
  response,   \* reverseGeocode: what the token lookup and the provider give
  address,    \* reverseGeocode: the GeocodingResult the call resolves to
  geoPc,      \* "call" before reverseGeocode has run, "return" after
  boundaryData, \* boundary matching: geoData.features, the source polygons
  areaCounts, \* boundary matching: the entries of cityCounts / townCounts in order
  centerHints,  \* createTownFeatures: the optional map of centroid hints
  matchedFeatures,  \* boundary matching: the features of the collection returned
  matchPc,    \* "call" before a matcher has run, then "city" or "town"
  batchKind,  \* which loop runs: "batch" (batchReverseGeocode) or "update" (updateAddressInfo)
  loggedIn,   \* updateAddressInfo: whether user is set
  coords,     \* the coordinates / photos given, each with what its request will give
  batchI,     \* the loop variable i
  batchPc,    \* "call", "request" (awaiting reverseGeocode), "updating" (awaiting the
              \* row update), "delay" (awaiting the timer), "done"
  inFlight,   \* the number of provider fetches issued and not yet settled
  results,    \* batchReverseGeocode: results; the value returned once done
  updated,    \* updateAddressInfo: updated; the value returned once done
  cancelRequested,  \* whether the caller has asked for the batch to stop
  eventLog,   \* history: the requests, completions, progress calls and delays so far
  prefectureGeoJSON,     \* the cached prefecture collection: the id of its fetch, 0 for null
  cityGeoJSONCache,      \* code -> the id of the fetch whose data is cached, 0 for no entry
  townGeoJSONCache,      \* the same for the town level
  isLoadingPrefecture,   \* the module's flag
  loadPrefecturePromise, \* the id of the fetch the stored promise belongs to, 0 for null
  fetches,    \* every fetchGeoJSON call so far, in order: [level, code, state, owner,
              \* clearsBefore (history: the number of clears when it was started)]
  calls,      \* every load call so far, in order
  clears,     \* history: the number of clearGeoDataCache calls so far
  rawName,   \* normalizePrefectureName / normalizeCityName: the argument
  normalizedName, \* the value returned
  normPc,     \* "call" before a normalizer has run, then "prefecture" or "city"
  files,      \* parseMultiplePhotos: what parsePhotoEXIF gives for each file
  parseOptions,   \* the options concurrency and yieldEvery as passed
  parsePc,    \* "call", "running" (awaiting Promise.all), "returned"
  aborted,    \* options.signal.aborted
  processed,  \* the local processed
  index,      \* the local index: the next file to claim, from 0
  parseResults,   \* the local results: -1 for an empty slot, 0 for null, i for the
                  \* photo of file i
  workers,    \* one [pc, current] per worker; pc is "parsing" (awaiting
              \* parsePhotoEXIF), "yield" (awaiting yieldToMainThread) or "done"
  parseLog,   \* history: the progress calls, claims, completions and the abort so far
  returnedPhotos  \* the list the call resolves with

kanjiVars == <<kanji, kanjiNum, kanjiPc>>
chomeVars == <<s, x>>
aggVars == <<photos, gridStats, gridPc, gridOrigin, adminStats, adminPc>>
geoVars == <<response, address, geoPc>>
matchVars == <<boundaryData, areaCounts, centerHints, matchedFeatures, matchPc>>
batchVars == <<batchKind, loggedIn, coords, batchI, batchPc, inFlight, results, updated,
               cancelRequested, eventLog>>
cacheVars == <<prefectureGeoJSON, cityGeoJSONCache, townGeoJSONCache, isLoadingPrefecture,
               loadPrefecturePromise, fetches, calls, clears>>
normVars == <<rawName, normalizedName, normPc>>
parseVars == <<files, parseOptions, parsePc, aborted, processed, index, parseResults,
               workers, parseLog, returnedPhotos>>
vars == <<kanjiVars, chomeVars, aggVars, geoVars, matchVars, batchVars, cacheVars, normVars,
          parseVars>>

Null == <<"null">>
Pending == <<"pending">>
NoNumber == -1
Idle == <<"idle">>
\* null where an object is expected
NullObject == [isNull |-> TRUE]
IsNullObject(r) == "isNull" \in DOMAIN r
\* { prefecture: null, city: null, town: null }
AllNull == [prefecture |-> Null, city |-> Null, town |-> Null]

\* Bounds of the model.
MaxKanjiLen == 4
MaxStrLen == 4
MaxPhotos == 3
MaxFeatures == 3
MaxPolygons == 2
MaxTargets == 2
MaxBatch == 3
MaxCalls == 2
MaxClears == 1
MaxNameLen == 3

RECURSIVE SeqsUpTo(_, _)
SeqsUpTo(A, n) ==
  IF n = 0 THEN {<<>>}
  ELSE LET shorter == SeqsUpTo(A, n - 1)
       IN  shorter \cup {Append(q, a) : q \in {r \in shorter : Len(r) = n - 1}, a \in A}

(***************************************************************************)
(* JavaScript string primitives.                                           *)
(***************************************************************************)
\* String.prototype.indexOf(pat): the first 1-based position, 0 when absent.
IndexOf(str, pat) ==
  LET hits == {i \in 1..(Len(str) - Len(pat) + 1) : SubSeq(str, i, i + Len(pat) - 1) = pat}
  IN  IF hits = {} THEN 0 ELSE CHOOSE i \in hits : \A j \in hits : i <= j

\* String.prototype.includes(pat)
Includes(str, pat) ==
  \E i \in 1..(Len(str) - Len(pat) + 1) : SubSeq(str, i, i + Len(pat) - 1) = pat

\* String.prototype.split(sep) for a one-character separator
RECURSIVE Split(_, _)
Split(str, sep) ==
  LET i == IndexOf(str, <<sep>>)
  IN  IF i = 0 THEN <<str>>
      ELSE <<SubSeq(str, 1, i - 1)>> \o Split(SubSeq(str, i + 1, Len(str)), sep)

\* Number -> decimal string (template literal `${n}`)
Digit(d) == <<"0", "1", "2", "3", "4", "5", "6", "7", "8", "9">>[d + 1]

RECURSIVE NumberToString(_)
NumberToString(n) ==
  IF n < 0 THEN <<"-">> \o NumberToString(0 - n)
  ELSE IF n < 10 THEN <<Digit(n)>>
  ELSE NumberToString(n \div 10) \o <<Digit(n % 10)>>

(***************************************************************************)
(* reverseGeocode.ts: toHalfWidthDigits, kanjiToNumber, normalizeChome     *)
(***************************************************************************)
FullWidthDigits == {"fw0", "fw1", "fw2", "fw3", "fw4", "fw5", "fw6", "fw7", "fw8", "fw9"}
FoldDigit(c) == CHOOSE d \in 0..9 : <<"fw0", "fw1", "fw2", "fw3", "fw4", "fw5", "fw6", "fw7", "fw8", "fw9">>[d + 1] = c

toHalfWidthDigits(str) ==
  [i \in 1..Len(str) |-> IF str[i] \in FullWidthDigits THEN Digit(FoldDigit(str[i])) ELSE str[i]]

\* /[\s　]/g replaced by '': every white-space character is removed
WhiteSpace == {"sp", "isp"}
StripWhiteSpace(str) == SelectSeq(str, LAMBDA c : c \notin WhiteSpace)

\* const map = { 一: 1, ..., 九: 9 }; map[k] is NoNumber (undefined) for any other key
KanjiDigits == <<"k1", "k2", "k3", "k4", "k5", "k6", "k7", "k8", "k9">>
map(key) ==
  IF Len(key) = 1 /\ \E d \in 1..9 : KanjiDigits[d] = key[1]
  THEN CHOOSE d \in 1..9 : KanjiDigits[d] = key[1]
  ELSE NoNumber

kanjiToNumber(k) ==
  IF k = <<>> THEN NoNumber
  ELSE IF k = <<"k10">> THEN 10
  ELSE IF ~Includes(k, <<"k10">>)
       THEN IF Len(k) = 1 /\ map(k) # NoNumber THEN map(k) ELSE NoNumber
  ELSE LET parts == Split(k, "k10")
           tensPart == parts[1]
           onesPart == parts[2]
           tens == IF tensPart # <<>> THEN map(tensPart) ELSE 1
           ones == IF onesPart # <<>> THEN map(onesPart) ELSE 0
       IN  IF tens = NoNumber THEN NoNumber
           ELSE IF onesPart # <<>> /\ ones = NoNumber THEN NoNumber
           ELSE tens * 10 + ones

\* The character class [一二三四五六七八九十]
KanjiNumeral == {"k1", "k2", "k3", "k4", "k5", "k6", "k7", "k8", "k9", "k10"}

\* x.replace(/([一二三四五六七八九十]+)丁目/g, (m, k) => ...): the matches are found
\* left to right, each at the leftmost position where a non-empty numeral run is
\* followed by 丁目, the run taken greedily; the scan resumes after the match.
RunEnd(str, i) ==
  CHOOSE j \in i..(Len(str) + 1) :
    /\ \A m \in i..(j - 1) : str[m] \in KanjiNumeral
    /\ (j = Len(str) + 1 \/ str[j] \notin KanjiNumeral)

RECURSIVE ReplaceChome(_, _)
ReplaceChome(str, i) ==
  IF i > Len(str) THEN <<>>
  ELSE LET j == RunEnd(str, i)
       IN  IF j > i /\ j + 1 <= Len(str) /\ str[j] = "chou" /\ str[j + 1] = "me"
           THEN LET k == SubSeq(str, i, j - 1)
                    n == kanjiToNumber(k)
                IN  (IF n # NoNumber THEN NumberToString(n) \o <<"chou", "me">>
                                     ELSE SubSeq(str, i, j + 1))
                    \o ReplaceChome(str, j + 2)
           ELSE <<str[i]>> \o ReplaceChome(str, i + 1)

normalizeChome(str) ==
  LET x1 == StripWhiteSpace(toHalfWidthDigits(str))
      x2 == ReplaceChome(x1, 1)
      idx == IndexOf(x2, <<"chou", "me">>)
  IN  IF idx >= 1 THEN SubSeq(x2, 1, idx + 1) ELSE x2

(***************************************************************************)
(* reverseGeocode.ts: reverseGeocode (lines 26-194).  A response is        *)
(* [outcome, features, context]: outcome "ok" for a 2xx JSON answer, whose *)
(* features are [place_type, text] with place_type the first entry of the  *)
(* feature's place_type and text the value of text_ja || text, and whose   *)
(* context is features[0].context as [kind, text], kind being the part of  *)
(* the id before the dot.  Every other outcome ends in the early return or *)
(* in the catch block.                                                     *)
(***************************************************************************)
\* a || b
JsOr(a, b) == IF a # Null /\ a # <<>> THEN a ELSE b

\* str.endsWith('区')
EndsWithKu(str) == Len(str) >= 1 /\ str[Len(str)] = "ku"

\* Lines 110-128: every feature of a category assigns that category's name
RECURSIVE CollectFeatures(_, _)
CollectFeatures(features, n) ==
  IF n = 0
  THEN [region |-> Null, district |-> Null, place |-> Null, locality |-> Null,
        neighborhood |-> Null, address |-> Null]
  ELSE LET names == CollectFeatures(features, n - 1)
           placeType == features[n].place_type
           text == features[n].text
       IN  IF placeType \in {"region", "district", "place", "locality", "neighborhood", "address"}
           THEN [names EXCEPT ![placeType] = text]
           ELSE names

\* Lines 131-149: the context fills the categories that are still falsy
RECURSIVE BackFill(_, _, _)
BackFill(names, context, n) ==
  IF n = 0 THEN names
  ELSE LET filled == BackFill(names, context, n - 1)
           kind == context[n].kind
           text == context[n].text
       IN  IF kind \in {"region", "district", "place", "locality", "neighborhood", "address"}
              /\ ~(filled[kind] # Null /\ filled[kind] # <<>>)
           THEN [filled EXCEPT ![kind] = text]
           ELSE filled

extractChomeFromAddress(str) ==
  IF ~(str # Null /\ str # <<>>) THEN Null ELSE normalizeChome(str)

ClassifyPlaceFirst(names, chomeFromAddress) ==
  IF names.place # Null /\ names.place # <<>> /\ names.place # names.region
  THEN [city |-> names.place,
        town |-> JsOr(JsOr(names.neighborhood, chomeFromAddress), names.locality)]
  ELSE IF names.locality # Null /\ names.locality # <<>> /\ EndsWithKu(names.locality)
  THEN [city |-> names.locality, town |-> JsOr(names.neighborhood, chomeFromAddress)]
  ELSE IF names.district # Null /\ names.district # <<>> /\ EndsWithKu(names.district)
  THEN [city |-> names.district,
        town |-> JsOr(JsOr(names.neighborhood, chomeFromAddress), names.locality)]
  ELSE IF names.place = names.region /\ names.locality # Null /\ names.locality # <<>>
  THEN [city |-> names.locality, town |-> JsOr(names.neighborhood, chomeFromAddress)]
  ELSE [city |-> JsOr(JsOr(names.place, names.district), names.locality),
        town |-> JsOr(names.neighborhood, chomeFromAddress)]

\* Lines 160-180: the ward / city classification
Classify(names, chomeFromAddress) ==
  IF names.locality # Null /\ names.locality # <<>> /\ EndsWithKu(names.locality)
  THEN [city |-> names.locality, town |-> JsOr(names.neighborhood, chomeFromAddress)]
  ELSE IF names.district # Null /\ names.district # <<>> /\ EndsWithKu(names.district)
  THEN [city |-> names.district,
        town |-> JsOr(JsOr(names.neighborhood, chomeFromAddress), names.locality)]
  ELSE IF names.place # Null /\ names.place # <<>> /\ names.place # names.region
  THEN [city |-> names.place,
        town |-> JsOr(JsOr(names.neighborhood, chomeFromAddress), names.locality)]
  ELSE IF names.place = names.region /\ names.locality # Null /\ names.locality # <<>>
  THEN [city |-> names.locality, town |-> JsOr(names.neighborhood, chomeFromAddress)]
  ELSE [city |-> JsOr(JsOr(names.place, names.district), names.locality),
        town |-> JsOr(names.neighborhood, chomeFromAddress)]

\* Lines 101-149: the names the two passes collect
CollectedNames(resp) ==
  BackFill(CollectFeatures(resp.features, Len(resp.features)),
           IF resp.features = <<>> THEN <<>> ELSE resp.context,
           IF resp.features = <<>> THEN 0 ELSE Len(resp.context))

\* Lines 183-189: town && city && town === city nulls the town
GeocodingResult(prefecture, city, town) ==
  [prefecture |-> prefecture,
   city |-> city,
   town |-> IF town # Null /\ town # <<>> /\ city # Null /\ city # <<>> /\ town = city
            THEN Null ELSE town]

\* Lines 152-189 for the names collected
ResolveNames(names, picked) == GeocodingResult(names.region, picked.city, picked.town)

reverseGeocode(resp) ==
  IF resp.outcome # "ok" THEN AllNull
  ELSE ResolveNames(CollectedNames(resp),
                    Classify(CollectedNames(resp),
                             extractChomeFromAddress(CollectedNames(resp).address)))

(***************************************************************************)
(* Numbers.  Latitudes and longitudes are integers in units of 1/111320    *)
(* degree, so that metersToDegreesLat(m) is m units exactly.  cos(latitude)*)
(* is a step function: 1 below latitude 1000, 1/2 from there on.  The      *)
(* centre of a box is kept doubled (minLat + maxLat) where it is only read *)
(* by the cosine.  Math.log is a table of ln(n) in thousandths, and an     *)
(* intensity is in thousandths too.  A running mean is an exact fraction   *)
(* <<numerator, denominator>> in lowest terms.                             *)
(*                                                                         *)
(* The code computes in IEEE doubles.  A double difference is the exact    *)
(* difference moved to the nearest double, which is off by less than any   *)
(* distance between two coordinates here; it matters only where the exact  *)
(* value is a whole number of cells.  The origin of the grid is therefore  *)
(* [v, up]: the exact value v, and whether rounding has moved the double   *)
(* above it.  Which way a difference rounds depends on the low bits of the *)
(* operands, which the integers here do not carry: it is an input.         *)
(***************************************************************************)
\* the double nearest to the exact value v
Rounded(v, up) == [v |-> v, up |-> up]

metersToDegreesLat(meters) == meters

metersToDegreesLng(meters, latitude2) == IF latitude2 >= 2000 THEN meters * 2 ELSE meters

\* Math.floor(a / b) for b > 0
FloorDiv(a, b) == a \div b

\* Math.floor((lat - origin) / cellSize) for a rounded origin
FloorFromOrigin(lat, origin, cellSize) ==
  IF origin.up /\ (lat - origin.v) % cellSize = 0
  THEN FloorDiv(lat - origin.v, cellSize) - 1
  ELSE FloorDiv(lat - origin.v, cellSize)

LnMilli == <<0, 693, 1099, 1386, 1609, 1792, 1946, 2079, 2197, 2303, 2398, 2485>>
MathLog(n) == LnMilli[n]

MinOf(S) == CHOOSE m \in S : \A n \in S : m <= n
MaxOf(S) == CHOOSE m \in S : \A n \in S : m >= n

RECURSIVE Gcd(_, _)
Gcd(a, b) == IF b = 0 THEN a ELSE Gcd(b, a % b)
Abs(a) == IF a < 0 THEN 0 - a ELSE a
Frac(n, d) == LET g == Gcd(Abs(n), d) IN <<n \div g, d \div g>>

\* cells.sort((a, b) => b.count - a.count): Array.prototype.sort is stable
RECURSIVE InsertByCount(_, _)
InsertByCount(sorted, c) ==
  IF sorted = <<>> THEN <<c>>
  ELSE IF Head(sorted).count >= c.count
       THEN <<Head(sorted)>> \o InsertByCount(Tail(sorted), c)
       ELSE <<c>> \o sorted

SortByCountOmitted(cells) == cells

RECURSIVE SortByCountDesc(_)
SortByCountDesc(cells) ==
  IF cells = <<>> THEN <<>>
  ELSE InsertByCount(SortByCountDesc(SubSeq(cells, 1, Len(cells) - 1)), cells[Len(cells)])

\* A Map in insertion order: the position of key, 0 when absent
KeyIndex(entries, key) ==
  IF \E i \in 1..Len(entries) : entries[i].key = key
  THEN CHOOSE i \in 1..Len(entries) : entries[i].key = key
  ELSE 0

\* maxCount: the largest photos.length over the map's values, 0 for no value
MaxCount(entries) ==
  IF entries = <<>> THEN 0
  ELSE MaxOf({Len(entries[i].photos) : i \in 1..Len(entries)})

IntensityLinear(count, maxCount) ==
  IF maxCount > 0 THEN (count * 1000) \div maxCount ELSE 0

\* maxCount > 0 ? Math.log(count + 1) / Math.log(maxCount + 1) : 0
Intensity(count, maxCount) ==
  IF maxCount > 0 THEN (MathLog(count + 1) * 1000) \div MathLog(maxCount + 1) ELSE 0

(***************************************************************************)
(* gridCalculator.ts                                                       *)
(***************************************************************************)
getGridIndex(lat, lng, originLat, originLng, cellSizeLat, cellSizeLng) ==
  [row |-> FloorFromOrigin(lat, originLat, cellSizeLat),
   col |-> FloorFromOrigin(lng, originLng, cellSizeLng)]

RECURSIVE GroupIntoCellsOverwrite(_, _, _, _, _, _)
GroupIntoCellsOverwrite(ps, n, originLat, originLng, cellSizeLat, cellSizeLng) ==
  IF n = 0 THEN <<>>
  ELSE LET cellMap == GroupIntoCellsOverwrite(ps, n - 1, originLat, originLng, cellSizeLat, cellSizeLng)
           photo == ps[n]
           idx == getGridIndex(photo.latitude, photo.longitude,
                               originLat, originLng, cellSizeLat, cellSizeLng)
           key == NumberToString(idx.row) \o <<":">> \o NumberToString(idx.col)
           hit == {i \in 1..Len(cellMap) : cellMap[i].key = key}
       IN  IF hit = {}
           THEN Append(cellMap, [key |-> key, row |-> idx.row, col |-> idx.col, photos |-> <<photo>>])
           ELSE [i \in 1..Len(cellMap) |->
                   IF i \in hit THEN [cellMap[i] EXCEPT !.photos = <<photo>>] ELSE cellMap[i]]

\* The loop of lines 96-110 over photos[1..n]
RECURSIVE GroupIntoCells(_, _, _, _, _, _)
GroupIntoCells(ps, n, originLat, originLng, cellSizeLat, cellSizeLng) ==
  IF n = 0 THEN <<>>
  ELSE LET cellMap == GroupIntoCells(ps, n - 1, originLat, originLng, cellSizeLat, cellSizeLng)
           photo == ps[n]
           idx == getGridIndex(photo.latitude, photo.longitude,
                               originLat, originLng, cellSizeLat, cellSizeLng)
           key == NumberToString(idx.row) \o <<":">> \o NumberToString(idx.col)
           i == KeyIndex(cellMap, key)
       IN  IF i = 0
           THEN Append(cellMap, [key |-> key, row |-> idx.row, col |-> idx.col, photos |-> <<photo>>])
           ELSE [cellMap EXCEPT ![i].photos = Append(@, photo)]

\* Lines 69-91: the locals of buildPhotoGrid for a non-empty list.  rounding says
\* which way the two subtractions of lines 87 and 88 round.
GridLocals(ps, cellSizeMeters, rounding) ==
  LET minLat == MinOf({ps[i].latitude : i \in 1..Len(ps)})
      maxLat == MaxOf({ps[i].latitude : i \in 1..Len(ps)})
      minLng == MinOf({ps[i].longitude : i \in 1..Len(ps)})
      padLat == metersToDegreesLat(cellSizeMeters)
      centerLat2 == minLat + maxLat
      padLng == metersToDegreesLng(cellSizeMeters, centerLat2)
  IN  [originLat |-> Rounded(minLat - padLat, rounding.latUp),
       originLng |-> Rounded(minLng - padLng, rounding.lngUp),
       cellSizeLat |-> metersToDegreesLat(cellSizeMeters),
       cellSizeLng |-> metersToDegreesLng(cellSizeMeters, centerLat2)]

NoGridLocals ==
  [originLat |-> Rounded(0, FALSE), originLng |-> Rounded(0, FALSE),
   cellSizeLat |-> 0, cellSizeLng |-> 0]

\* Lines 93-160, from the locals on
GridFromLocals(ps, cellSizeMeters, locals) ==
  LET originLat == locals.originLat
      originLng == locals.originLng
      cellSizeLat == locals.cellSizeLat
      cellSizeLng == locals.cellSizeLng
      cellMap == GroupIntoCells(ps, Len(ps), originLat, originLng, cellSizeLat, cellSizeLng)
      maxCount == MaxCount(cellMap)
      Cell(e) ==
        LET count == Len(e.photos)
            cellMinLat == originLat.v + e.row * cellSizeLat
            cellMaxLat == cellMinLat + cellSizeLat
            cellMinLng == originLng.v + e.col * cellSizeLng
            cellMaxLng == cellMinLng + cellSizeLng
        IN  [id |-> e.key, row |-> e.row, col |-> e.col,
             centerLat |-> (cellMinLat + cellMaxLat) \div 2,
             centerLng |-> (cellMinLng + cellMaxLng) \div 2,
             bounds |-> [minLat |-> cellMinLat, maxLat |-> cellMaxLat,
                         minLng |-> cellMinLng, maxLng |-> cellMaxLng],
             photos |-> e.photos,
             count |-> count,
             intensity |-> Intensity(count, maxCount)]
      cells == SortByCountDesc([i \in 1..Len(cellMap) |-> Cell(cellMap[i])])
  IN  [cells |-> cells, maxCount |-> maxCount, totalCells |-> Len(cells),
       cellSizeMeters |-> cellSizeMeters]

buildPhotoGrid(ps, cellSizeMeters, rounding) ==
  IF Len(ps) = 0
  THEN [cells |-> <<>>, maxCount |-> 0, totalCells |-> 0, cellSizeMeters |-> cellSizeMeters]
  ELSE GridFromLocals(ps, cellSizeMeters, GridLocals(ps, cellSizeMeters, rounding))

(***************************************************************************)
(* adminBoundaryCalculator.ts                                              *)
(***************************************************************************)
\* JavaScript truthiness of a string | null | undefined
Truthy(str) == str # Null /\ str # <<>>

\* '不明'
Unknown == <<"hu", "mei">>

AreaNameParentFallback(photo, level) ==
  LET areaName ==
        IF level = "prefecture"
        THEN (IF Truthy(photo.prefecture) THEN photo.prefecture ELSE Null)
        ELSE IF level = "city"
        THEN (IF Truthy(photo.prefecture) /\ Truthy(photo.city)
              THEN photo.prefecture \o <<"sp">> \o photo.city
              ELSE IF Truthy(photo.city) THEN photo.city
              ELSE IF Truthy(photo.prefecture) THEN photo.prefecture
              ELSE Null)
        ELSE (IF Truthy(photo.city) /\ Truthy(photo.town)
              THEN photo.city \o <<"sp">> \o photo.town
              ELSE IF Truthy(photo.town) THEN photo.town
              ELSE IF Truthy(photo.city) THEN photo.city
              ELSE Null)
  IN  IF ~Truthy(areaName) THEN Unknown ELSE areaName

\* Lines 45-67: the area key of one photo
AreaName(photo, level) ==
  LET areaName ==
        IF level = "prefecture"
        THEN (IF Truthy(photo.prefecture) THEN photo.prefecture ELSE Null)
        ELSE IF level = "city"
        THEN (IF Truthy(photo.prefecture) /\ Truthy(photo.city)
              THEN photo.prefecture \o <<"sp">> \o photo.city
              ELSE IF Truthy(photo.city) THEN photo.city
              ELSE Null)
        ELSE IF level = "town"
        THEN (IF Truthy(photo.city) /\ Truthy(photo.town)
              THEN photo.city \o <<"sp">> \o photo.town
              ELSE IF Truthy(photo.town) THEN photo.town
              ELSE Null)
        ELSE Null
  IN  IF ~Truthy(areaName) THEN Unknown ELSE areaName

RunningMeanHalves(center, n, value) ==
  IF n = 1 THEN Frac(value, 1) ELSE Frac(center[1] + value * center[2], center[2] * 2)

\* center = (center * (n - 1) + value) / n, in exact arithmetic
RunningMean(center, n, value) == Frac(center[1] * (n - 1) + value * center[2], center[2] * n)

\* The loop of lines 44-78 over photos[1..n]
RECURSIVE GroupIntoAreas(_, _, _)
GroupIntoAreas(ps, n, level) ==
  IF n = 0 THEN <<>>
  ELSE LET areaMap0 == GroupIntoAreas(ps, n - 1, level)
           photo == ps[n]
           areaName == AreaName(photo, level)
           areaMap == IF KeyIndex(areaMap0, areaName) = 0
                      THEN Append(areaMap0, [key |-> areaName, photos |-> <<>>,
                                             centerLat |-> <<0, 1>>, centerLng |-> <<0, 1>>])
                      ELSE areaMap0
           i == KeyIndex(areaMap, areaName)
           area == areaMap[i]
           pushed == Append(area.photos, photo)
       IN  [areaMap EXCEPT ![i] =
              [key |-> area.key,
               photos |-> pushed,
               centerLat |-> RunningMean(area.centerLat, Len(pushed), photo.latitude),
               centerLng |-> RunningMean(area.centerLng, Len(pushed), photo.longitude)]]

buildAdminBoundaryStats(ps, level) ==
  IF Len(ps) = 0
  THEN [cells |-> <<>>, maxCount |-> 0, totalAreas |-> 0, level |-> level]
  ELSE
    LET areaMap == GroupIntoAreas(ps, Len(ps), level)
        maxCount == MaxCount(areaMap)
        Cell(e) ==
          LET count == Len(e.photos)
          IN  [id |-> e.key, name |-> e.key, level |-> level, photos |-> e.photos,
               count |-> count, intensity |-> Intensity(count, maxCount),
               centerLat |-> e.centerLat, centerLng |-> e.centerLng]
        cells == SortByCountDesc([i \in 1..Len(areaMap) |-> Cell(areaMap[i])])
    IN  [cells |-> cells, maxCount |-> maxCount, totalAreas |-> Len(cells), level |-> level]

(***************************************************************************)
(* japanGeoData.ts: name normalisation and the boundary matchers.  A       *)
(* polygon feature is [properties, geometry]; properties holds the keys    *)
(* the name lookups read first (N03_004, label, nam_ja) and name, null for *)
(* a missing key; geometry is [type, coordinates], the coordinates of a    *)
(* Polygon being its rings, a ring a sequence of <<lng, lat>>, and those   *)
(* of a MultiPolygon a sequence of polygons.  A counts map is a sequence   *)
(* of [key, count, intensity] in insertion order.                          *)
(***************************************************************************)
\* String.prototype.trim
RECURSIVE TrimStart(_)
TrimStart(str) ==
  IF str # <<>> /\ Head(str) \in WhiteSpace THEN TrimStart(Tail(str)) ELSE str

RECURSIVE TrimEnd(_)
TrimEnd(str) ==
  IF str # <<>> /\ str[Len(str)] \in WhiteSpace THEN TrimEnd(SubSeq(str, 1, Len(str) - 1)) ELSE str

Trim(str) == TrimEnd(TrimStart(str))

\* str.replace(/c$/, '')
DropSuffix(str, c) ==
  IF str # <<>> /\ str[Len(str)] = c THEN SubSeq(str, 1, Len(str) - 1) ELSE str

normalizePrefectureName(name) ==
  Trim(DropSuffix(DropSuffix(DropSuffix(DropSuffix(name, "to"), "dou"), "fu"), "ken"))

normalizeCityName(name) ==
  Trim(DropSuffix(DropSuffix(DropSuffix(DropSuffix(DropSuffix(name, "shi"), "ku"), "machi"), "mura"), "gun"))

normalizeTownNameKeepingRest(name) ==
  Trim(ReplaceChome(toHalfWidthDigits(StripWhiteSpace(name)), 1))

normalizeTownName(name) ==
  LET x0 == toHalfWidthDigits(StripWhiteSpace(name))
      idx == IndexOf(x0, <<"chou", "me">>)
      x1 == IF idx >= 1 THEN SubSeq(x0, 1, idx + 1) ELSE x0
  IN  Trim(ReplaceChome(x1, 1))

isNameMatchExact(a, b) == a = b

\* a === b || a.includes(b) || b.includes(a)
isNameMatch(a, b) == a = b \/ Includes(a, b) \/ Includes(b, a)

\* props.N03_004 || props.name || props.N03_003 || props.NAME || null
getCityName(feature) ==
  IF IsNullObject(feature.properties) THEN Null
  ELSE JsOr(JsOr(JsOr(JsOr(feature.properties.N03_004, feature.properties.name),
                      feature.properties.N03_003), feature.properties.NAME), Null)

getTownName(feature) ==
  IF IsNullObject(feature.properties) THEN Null
  ELSE JsOr(JsOr(feature.properties.label, feature.properties.name), Null)

IsPolygonal(geometry) == geometry.type = "Polygon" \/ geometry.type = "MultiPolygon"

\* Lines 483-516 over geoData.features[1..n], the inner loop over the counts in
\* insertion order: [matchedFeatures, matched]
RECURSIVE CityLoop(_, _, _)
CityLoop(features, n, cityCounts) ==
  IF n = 0 THEN [matchedFeatures |-> <<>>, matched |-> {}]
  ELSE LET acc == CityLoop(features, n - 1, cityCounts)
           feature == features[n]
           cityName == getCityName(feature)
           normalizedCityName == normalizeCityName(cityName)
           \* the first entry not yet matched whose name matches: the loop breaks there
           hits == {i \in 1..Len(cityCounts) :
                      /\ cityCounts[i].key \notin acc.matched
                      /\ isNameMatch(normalizedCityName, normalizeCityName(cityCounts[i].key))}
       IN  IF ~(cityName # Null /\ cityName # <<>>) \/ hits = {} THEN acc
           ELSE LET i == MinOf(hits)
                    data == cityCounts[i]
                IN  IF IsPolygonal(feature.geometry)
                    THEN [matchedFeatures |->
                            Append(acc.matchedFeatures,
                                   [properties |-> [name |-> cityName, matchedName |-> data.key,
                                                    count |-> data.count,
                                                    intensity |-> data.intensity],
                                    geometry |-> feature.geometry]),
                          matched |-> acc.matched \cup {data.key}]
                    ELSE acc

createCityFeatures(geoData, cityCounts) ==
  CityLoop(geoData, Len(geoData), cityCounts).matchedFeatures

\* Lines 216-238: the mean of all coordinate pairs, as exact fractions
\* [lng |-> <<n, d>>, lat |-> <<n, d>>]
RECURSIVE Concat(_)
Concat(seqs) == IF seqs = <<>> THEN <<>> ELSE Head(seqs) \o Concat(Tail(seqs))

PointsOf(geometry) ==
  IF geometry.type = "Polygon" THEN Concat(geometry.coordinates)
  ELSE IF geometry.type = "MultiPolygon"
       THEN Concat([i \in 1..Len(geometry.coordinates) |-> Concat(geometry.coordinates[i])])
  ELSE <<>>

RECURSIVE SumCoord(_, _)
SumCoord(points, k) == IF points = <<>> THEN 0 ELSE Head(points)[k] + SumCoord(Tail(points), k)

centroidOfGeometry(geometry) ==
  LET points == PointsOf(geometry)
      count == Len(points)
  IN  IF count = 0 THEN [lng |-> <<0, 1>>, lat |-> <<0, 1>>]
      ELSE [lng |-> Frac(SumCoord(points, 1), count), lat |-> Frac(SumCoord(points, 2), count)]

\* dx * dx + dy * dy for a = {lat, lng} in integers and b a centroid
distanceSq(a, b) ==
  LET dxn == a.lng * b.lng[2] - b.lng[1]
      dyn == a.lat * b.lat[2] - b.lat[1]
  IN  Frac(dxn * dxn * b.lat[2] * b.lat[2] + dyn * dyn * b.lng[2] * b.lng[2],
           b.lng[2] * b.lng[2] * b.lat[2] * b.lat[2])

FracLess(p, q) == p[1] * q[2] < q[1] * p[2]

\* Number.POSITIVE_INFINITY
PositiveInfinity == <<1, 0>>

\* Lines 246-254: one target per entry of townCounts; townCenters is NullObject
\* when the argument is omitted, and else [entries |-> a sequence of [key, lat, lng]]
CenterOf(townCenters, key) ==
  IF IsNullObject(townCenters) THEN NullObject
  ELSE IF \E i \in 1..Len(townCenters.entries) : townCenters.entries[i].key = key
       THEN LET i == CHOOSE i \in 1..Len(townCenters.entries) : townCenters.entries[i].key = key
            IN  [lat |-> townCenters.entries[i].lat, lng |-> townCenters.entries[i].lng]
       ELSE NullObject

Targets(townCounts, townCenters) ==
  [i \in 1..Len(townCounts) |->
     [key |-> townCounts[i].key,
      normalizedKey |-> normalizeTownName(townCounts[i].key),
      data |-> [count |-> townCounts[i].count, intensity |-> townCounts[i].intensity],
      center |-> CenterOf(townCenters, townCounts[i].key),
      bestFeature |-> NullObject,
      bestTownName |-> Null,
      bestDistanceSq |-> PositiveInfinity]]

\* Lines 266-285: one raw feature offered to one target
OfferToTarget(target, rawFeature, townName, normalizedTownName, centroid) ==
  IF ~isNameMatch(normalizedTownName, target.normalizedKey) THEN target
  ELSE LET d2 == IF ~IsNullObject(target.center) THEN distanceSq(target.center, centroid) ELSE <<0, 1>>
           taken == [target EXCEPT !.bestFeature = rawFeature,
                                   !.bestTownName = townName,
                                   !.bestDistanceSq = d2]
       IN  IF IsNullObject(target.bestFeature) THEN taken
           ELSE IF ~IsNullObject(target.center) /\ FracLess(d2, target.bestDistanceSq) THEN taken
           ELSE target

\* Lines 256-286 over geoData.features[1..n]
RECURSIVE TownLoop(_, _, _)
TownLoop(features, n, targets) ==
  IF n = 0 THEN targets
  ELSE LET before == TownLoop(features, n - 1, targets)
           rawFeature == features[n]
           townName == getTownName(rawFeature)
           geometry == rawFeature.geometry
       IN  IF ~(townName # Null /\ townName # <<>>) THEN before
           ELSE IF IsNullObject(geometry) \/ ~IsPolygonal(geometry) THEN before
           ELSE [i \in 1..Len(before) |->
                   OfferToTarget(before[i], rawFeature, townName,
                                 normalizeTownName(townName), centroidOfGeometry(geometry))]

createTownFeatures(geoData, townCounts, townCenters) ==
  LET targets == TownLoop(geoData, Len(geoData), Targets(townCounts, townCenters))
      kept == SelectSeq(targets, LAMBDA tg : ~IsNullObject(tg.bestFeature))
  IN  [i \in 1..Len(kept) |->
         [properties |-> [name |-> IF kept[i].bestTownName # Null THEN kept[i].bestTownName
                                   ELSE kept[i].key,
                          matchedName |-> kept[i].key,
                          count |-> kept[i].data.count,
                          intensity |-> kept[i].data.intensity],
          geometry |-> kept[i].bestFeature.geometry]]

\* props.nam_ja || props.name_ja || props.name || props.NAME || props.nam || null
getPrefectureName(feature) ==
  IF IsNullObject(feature.properties) THEN Null
  ELSE JsOr(JsOr(JsOr(JsOr(JsOr(feature.properties.nam_ja, feature.properties.name_ja),
                           feature.properties.name), feature.properties.NAME),
                 feature.properties.nam), Null)

\* '東京都（諸島部）'
TokyoIslands == <<"tou", "kyou", "to", "fwlp", "sho", "shima", "bu", "fwrp">>

isTokyoIslandRingInclusive(ring) ==
  IF Len(ring) = 0 THEN FALSE
  ELSE \/ 2 * SumCoord(ring, 1) >= 281 * Len(ring)
       \/ SumCoord(ring, 2) <= 35 * Len(ring)

\* Lines 403-408, coordinates in whole degrees: avgLng > 140.5 || avgLat < 35.0
isTokyoIslandRing(ring) ==
  IF Len(ring) = 0 THEN FALSE
  ELSE \/ 2 * SumCoord(ring, 1) > 281 * Len(ring)
       \/ SumCoord(ring, 2) < 35 * Len(ring)

\* Lines 428-454: the features pushed for a 東京都 MultiPolygon
SplitTokyo(coordinates, data) ==
  LET islandPolygons == SelectSeq(coordinates, LAMBDA polygon : isTokyoIslandRing(polygon[1]))
      mainlandPolygons == SelectSeq(coordinates, LAMBDA polygon : ~isTokyoIslandRing(polygon[1]))
  IN  (IF Len(mainlandPolygons) > 0
       THEN <<[properties |-> [name |-> <<"tou", "kyou", "to">>, count |-> data.count,
                               intensity |-> data.intensity],
               geometry |-> [type |-> "MultiPolygon", coordinates |-> mainlandPolygons]]>>
       ELSE <<>>)
      \o
      (IF Len(islandPolygons) > 0
       THEN <<[properties |-> [name |-> TokyoIslands, count |-> data.count,
                               intensity |-> data.intensity],
               geometry |-> [type |-> "MultiPolygon", coordinates |-> islandPolygons]]>>
       ELSE <<>>)

\* Lines 410-465 over geoData.features[1..n]: matchedFeatures
RECURSIVE PrefectureLoop(_, _, _)
PrefectureLoop(features, n, prefectureCounts) ==
  IF n = 0 THEN <<>>
  ELSE LET acc == PrefectureLoop(features, n - 1, prefectureCounts)
           feature == features[n]
           prefName == getPrefectureName(feature)
           \* the first entry whose name matches: the loop breaks there
           hits == {i \in 1..Len(prefectureCounts) :
                      isNameMatch(normalizePrefectureName(prefName),
                                  normalizePrefectureName(prefectureCounts[i].key))}
       IN  IF ~(prefName # Null /\ prefName # <<>>) \/ hits = {} THEN acc
           ELSE LET data == prefectureCounts[MinOf(hits)]
                IN  IF ~IsPolygonal(feature.geometry) THEN acc
                    ELSE IF prefName = <<"tou", "kyou", "to">>
                            /\ feature.geometry.type = "MultiPolygon"
                    THEN acc \o SplitTokyo(feature.geometry.coordinates, data)
                    ELSE Append(acc, [properties |-> [name |-> prefName, count |-> data.count,
                                                      intensity |-> data.intensity],
                                      geometry |-> feature.geometry])

createPrefectureFeatures(geoData, prefectureCounts) ==
  PrefectureLoop(geoData, Len(geoData), prefectureCounts)

(***************************************************************************)
(* SpecKanji: kanjiToNumber applied to a token over 一 二 十 百.             *)
(***************************************************************************)
KanjiAlphabet == {"k1", "k2", "k10", "k100"}
KanjiTokens == SeqsUpTo(KanjiAlphabet, MaxKanjiLen)

NoGridStats == [cells |-> <<>>, maxCount |-> 0, totalCells |-> 0, cellSizeMeters |-> 0]
NoAdminStats == [cells |-> <<>>, maxCount |-> 0, totalAreas |-> 0, level |-> "none"]

chomeIdle == s = Idle /\ x = Idle
kanjiIdle == kanji = Idle /\ kanjiNum = NoNumber /\ kanjiPc = "idle"
matchIdle ==
  /\ boundaryData = <<>> /\ areaCounts = <<>> /\ centerHints = NullObject
  /\ matchedFeatures = <<>> /\ matchPc = "idle"
batchIdle ==
  /\ batchKind = "idle" /\ loggedIn = FALSE /\ coords = <<>> /\ batchI = 0
  /\ batchPc = "idle" /\ inFlight = 0 /\ results = <<>> /\ updated = 0
  /\ cancelRequested = FALSE /\ eventLog = <<>>
\* the two-digit codes of 東京都 and 大阪府
Codes == {"13", "27"}
EmptyCache == [code \in Codes |-> 0]
cacheIdle ==
  /\ prefectureGeoJSON = 0 /\ cityGeoJSONCache = EmptyCache /\ townGeoJSONCache = EmptyCache
  /\ isLoadingPrefecture = FALSE /\ loadPrefecturePromise = 0
  /\ fetches = <<>> /\ calls = <<>> /\ clears = 0
normIdle == rawName = <<>> /\ normalizedName = <<>> /\ normPc = "idle"
parseIdle ==
  /\ files = <<>> /\ parseOptions = [concurrency |-> 0, yieldEvery |-> 0] /\ parsePc = "idle"
  /\ aborted = FALSE /\ processed = 0 /\ index = 0 /\ parseResults = <<>>
  /\ workers = <<>> /\ parseLog = <<>> /\ returnedPhotos = <<>>
geoIdle == response = [outcome |-> "idle"] /\ address = AllNull /\ geoPc = "idle"
aggIdle ==
  /\ photos = <<>>
  /\ gridStats = NoGridStats /\ gridPc = "idle" /\ gridOrigin = NoGridLocals
  /\ adminStats = NoAdminStats /\ adminPc = "idle"

InitKanji ==
  /\ kanji \in KanjiTokens
  /\ kanjiNum = NoNumber
  /\ kanjiPc = "call"
  /\ chomeIdle /\ aggIdle /\ geoIdle /\ matchIdle /\ batchIdle /\ cacheIdle /\ normIdle /\ parseIdle

KanjiToNumber ==
  /\ kanjiPc = "call"
  /\ kanjiNum' = kanjiToNumber(kanji)
  /\ kanjiPc' = "return"
  /\ UNCHANGED <<kanji, chomeVars, aggVars, geoVars, matchVars, batchVars, cacheVars, normVars, parseVars>>

NextKanji == KanjiToNumber
SpecKanji == InitKanji /\ [][NextKanji]_vars

(***************************************************************************)
(* SpecChome: normalizeChome or normalizeTownName applied to a text.        *)
(***************************************************************************)
ChomeAlphabet == {"k1", "k10", "chou", "me", "fw3", "sp", "ban"}
\* 弥生町３丁目１３番, 二十三丁目, 百一丁目, 一丁目二丁目, 丁目十丁目
ChomeExamples ==
  { <<"ya", "yoi", "machi", "fw3", "chou", "me", "fw1", "fw3", "ban">>,
    <<"k2", "k10", "k3", "chou", "me">>,
    <<"k100", "k1", "chou", "me">>,
    <<"k1", "chou", "me", "k2", "chou", "me">>,
    <<"chou", "me", "k10", "chou", "me">> }
ChomeInputs == SeqsUpTo(ChomeAlphabet, MaxStrLen) \cup ChomeExamples

InitChome ==
  /\ s \in ChomeInputs
  /\ x = Pending
  /\ kanjiIdle /\ aggIdle /\ geoIdle /\ matchIdle /\ batchIdle /\ cacheIdle /\ normIdle /\ parseIdle

NormalizeChome ==
  /\ x = Pending
  /\ x' = normalizeChome(s)
  /\ UNCHANGED <<s, kanjiVars, aggVars, geoVars, matchVars, batchVars, cacheVars, normVars, parseVars>>

NormalizeTownName ==
  /\ x = Pending
  /\ x' = normalizeTownName(s)
  /\ UNCHANGED <<s, kanjiVars, aggVars, geoVars, matchVars, batchVars, cacheVars, normVars, parseVars>>

NextChome == NormalizeChome \/ NormalizeTownName
SpecChome == InitChome /\ [][NextChome]_vars

(***************************************************************************)
(* SpecAggregate: one set of observations, aggregated by buildPhotoGrid    *)
(* and by buildAdminBoundaryStats.                                         *)
(***************************************************************************)
Tokyo == <<"tou", "kyou", "to">>
Osaka == <<"oo", "saka", "fu">>
Nakano == <<"naka", "no", "ku">>
Yayoi == <<"ya", "yoi", "machi">>

Photo(lat, lng, prefecture, city, town) ==
  [latitude |-> lat, longitude |-> lng, prefecture |-> prefecture, city |-> city, town |-> town]

PhotoPool ==
  { Photo(0, 0, Tokyo, Nakano, Yayoi),
    Photo(200, 100, Tokyo, Nakano, Null),
    Photo(500, 0, Tokyo, Null, Null),
    Photo(499, 1300, Tokyo, Nakano, Null),
    Photo(1300, 900, Osaka, Nakano, Null),
    Photo(2600, 0, Null, <<>>, Yayoi),
    Photo(100, 2100, Null, Null, Null),
    Photo(900, 400, <<>>, Nakano, <<>>),
    Photo(700, 2200, Osaka, Nakano, Yayoi) }

CellSizes == {500, 1000}
Roundings == [latUp : BOOLEAN, lngUp : BOOLEAN]
AdminLevels == {"prefecture", "city", "town"}

InitAggregate ==
  /\ photos \in SeqsUpTo(PhotoPool, MaxPhotos)
  /\ gridStats = NoGridStats /\ gridPc = "call" /\ gridOrigin = NoGridLocals
  /\ adminStats = NoAdminStats /\ adminPc = "call"
  /\ kanjiIdle /\ chomeIdle /\ geoIdle /\ matchIdle /\ batchIdle /\ cacheIdle /\ normIdle /\ parseIdle

BuildPhotoGrid ==
  /\ gridPc = "call"
  /\ \E cellSizeMeters \in CellSizes, rounding \in Roundings :
       /\ gridStats' = buildPhotoGrid(photos, cellSizeMeters, rounding)
       /\ gridOrigin' = IF Len(photos) = 0 THEN NoGridLocals
                        ELSE GridLocals(photos, cellSizeMeters, rounding)
  /\ gridPc' = "return"
  /\ UNCHANGED <<photos, adminStats, adminPc, kanjiVars, chomeVars, geoVars, matchVars, batchVars, cacheVars, normVars, parseVars>>

BuildAdminBoundaryStats ==
  /\ adminPc = "call"
  /\ \E level \in AdminLevels : adminStats' = buildAdminBoundaryStats(photos, level)
  /\ adminPc' = "return"
  /\ UNCHANGED <<photos, gridStats, gridPc, gridOrigin, kanjiVars, chomeVars, geoVars, matchVars, batchVars, cacheVars, normVars, parseVars>>

NextAggregate == BuildPhotoGrid \/ BuildAdminBoundaryStats
SpecAggregate == InitAggregate /\ [][NextAggregate]_vars

(***************************************************************************)
(* SpecGeocode: reverseGeocode applied to one provider response.           *)
(***************************************************************************)
Feature(placeType, text) == [place_type |-> placeType, text |-> text]
Context(kind, text) == [kind |-> kind, text |-> text]

\* 弥生町３丁目１３番
YayoiAddress == <<"ya", "yoi", "machi", "fw3", "chou", "me", "fw1", "fw3", "ban">>

FeaturePool ==
  { Feature("region", Tokyo),
    Feature("place", Tokyo),
    Feature("place", Yayoi),
    Feature("district", Nakano),
    Feature("district", Yayoi),
    Feature("locality", Nakano),
    Feature("locality", Yayoi),
    Feature("locality", <<>>),
    Feature("neighborhood", Yayoi),
    Feature("address", YayoiAddress),
    Feature("address", <<"sp">>) }

ContextChains ==
  { <<>>,
    <<Context("region", Tokyo)>>,
    <<Context("place", Yayoi), Context("region", Tokyo)>>,
    <<Context("locality", Nakano), Context("place", Tokyo), Context("region", Tokyo)>> }

\* No token; fetch rejects; a non-2xx status; a body that is not JSON
FailedOutcomes == {"noToken", "networkError", "notOk", "badJson"}

Responses ==
  {[outcome |-> "ok", features |-> f, context |-> c] :
     f \in SeqsUpTo(FeaturePool, MaxFeatures), c \in ContextChains}
  \cup {[outcome |-> o, features |-> <<>>, context |-> <<>>] : o \in FailedOutcomes}

InitGeocode ==
  /\ response \in Responses
  /\ address = AllNull
  /\ geoPc = "call"
  /\ kanjiIdle /\ chomeIdle /\ aggIdle /\ matchIdle /\ batchIdle /\ cacheIdle /\ normIdle /\ parseIdle

ReverseGeocode ==
  /\ geoPc = "call"
  /\ address' = reverseGeocode(response)
  /\ geoPc' = "return"
  /\ UNCHANGED <<response, kanjiVars, chomeVars, aggVars, matchVars, batchVars, cacheVars, normVars, parseVars>>

NextGeocode == ReverseGeocode
SpecGeocode == InitGeocode /\ [][NextGeocode]_vars

(***************************************************************************)
(* SpecMatch: createPrefectureFeatures, createCityFeatures and              *)
(* createTownFeatures applied to up to MaxPolygons source features and up   *)
(* to MaxTargets target areas: municipal and town polygons on a plane of    *)
(* small coordinates, or prefecture polygons in whole degrees.              *)
(***************************************************************************)
Properties(n03_004, name, n03_003, label) ==
  [N03_004 |-> n03_004, name |-> name, N03_003 |-> n03_003, NAME |-> Null, label |-> label,
   nam_ja |-> Null, name_ja |-> Null, nam |-> Null]

PrefectureProperties(nam_ja, name) ==
  [N03_004 |-> Null, name |-> name, N03_003 |-> Null, NAME |-> Null, label |-> Null,
   nam_ja |-> nam_ja, name_ja |-> Null, nam |-> Null]

\* a square ring of side 2 around (lng, lat)
Ring(lng, lat) ==
  <<<<lng - 1, lat - 1>>, <<lng + 1, lat - 1>>, <<lng + 1, lat + 1>>, <<lng - 1, lat + 1>>>>
Polygon(lng, lat) == [type |-> "Polygon", coordinates |-> <<Ring(lng, lat)>>]
MultiPolygon(lng, lat) ==
  [type |-> "MultiPolygon", coordinates |-> <<<<Ring(lng, lat)>>, <<Ring(lng + 4, lat)>>>>]

NakanoKu == <<"naka", "no", "ku">>
ShinjukuKu == <<"shin", "juku", "ku">>
YayoichoKanji == <<"ya", "yoi", "machi", "k3", "chou", "me">>
Yayoicho3 == <<"ya", "yoi", "machi", "3", "chou", "me">>

PolygonPool ==
  { [properties |-> Properties(NakanoKu, Null, Null, Null), geometry |-> Polygon(10, 10)],
    [properties |-> Properties(Null, Null, ShinjukuKu, Null), geometry |-> Polygon(20, 10)],
    [properties |-> Properties(Null, Nakano, Null, Null),
     geometry |-> [type |-> "Point", coordinates |-> <<10, 10>>]],
    [properties |-> Properties(Null, Null, Null, YayoichoKanji), geometry |-> Polygon(10, 20)],
    [properties |-> Properties(Null, Yayoicho3, Null, Null), geometry |-> MultiPolygon(30, 20)],
    [properties |-> Properties(Null, <<>>, Null, Null), geometry |-> Polygon(0, 0)],
    [properties |-> Properties(NakanoKu, Null, Null, Null), geometry |-> Polygon(40, 10)] }

\* 東京都 as in the boundary data: the mainland around (139, 36), 伊豆大島 south of
\* 35 degrees, 小笠原 east of 140.5 degrees, and a ring whose mean is (140.5, 35)
TokyoMainland == <<Ring(139, 36)>>
IzuOshima == <<Ring(139, 34)>>
Ogasawara == <<Ring(142, 36)>>
OnTheLine == <<<<<<140, 35>>, <<141, 35>>>>>>

PrefecturePool ==
  { [properties |-> PrefectureProperties(<<"tou", "kyou", "to">>, Null),
     geometry |-> [type |-> "MultiPolygon", coordinates |-> <<TokyoMainland, IzuOshima>>]],
    [properties |-> PrefectureProperties(<<"tou", "kyou", "to">>, Null),
     geometry |-> [type |-> "MultiPolygon", coordinates |-> <<Ogasawara, OnTheLine>>]],
    [properties |-> PrefectureProperties(<<"tou", "kyou", "to">>, Null),
     geometry |-> [type |-> "MultiPolygon", coordinates |-> <<IzuOshima, Ogasawara>>]],
    [properties |-> PrefectureProperties(Null, <<"tou", "kyou", "to">>),
     geometry |-> [type |-> "Polygon", coordinates |-> IzuOshima]],
    [properties |-> PrefectureProperties(<<"oo", "saka", "fu">>, Null),
     geometry |-> Polygon(135, 34)],
    [properties |-> PrefectureProperties(<<"oo", "saka", "fu">>, Null),
     geometry |-> [type |-> "Point", coordinates |-> <<135, 34>>]] }

PrefectureTargetPool ==
  { [key |-> <<"tou", "kyou", "to">>, count |-> 3, intensity |-> 1000],
    [key |-> <<"tou", "kyou">>, count |-> 2, intensity |-> 792],
    [key |-> <<"oo", "saka", "fu">>, count |-> 1, intensity |-> 500] }

PrefectureTargetLists ==
  {c \in SeqsUpTo(PrefectureTargetPool, MaxTargets) :
     \A i, j \in 1..Len(c) : i # j => c[i].key # c[j].key}

TokyoNakano == <<"tou", "kyou", "to", "sp", "naka", "no">>

TargetPool ==
  { [key |-> TokyoNakano, count |-> 2, intensity |-> 1000],
    [key |-> NakanoKu, count |-> 1, intensity |-> 631],
    [key |-> <<"shin", "juku">>, count |-> 3, intensity |-> 1000],
    [key |-> Yayoicho3, count |-> 1, intensity |-> 500],
    [key |-> NakanoKu \o <<"sp">> \o YayoichoKanji, count |-> 2, intensity |-> 792],
    [key |-> <<"oo", "saka">>, count |-> 1, intensity |-> 500] }

\* the targets of a Map: keys pairwise distinct
TargetLists ==
  {c \in SeqsUpTo(TargetPool, MaxTargets) :
     \A i, j \in 1..Len(c) : i # j => c[i].key # c[j].key}

\* townCenters omitted, or one hint for every target
CenterChoices(counts) ==
  {NullObject}
    \cup {[entries |-> [i \in 1..Len(counts) |->
                         [key |-> counts[i].key, lat |-> p[2], lng |-> p[1]]]] :
            p \in {<<10, 20>>, <<32, 20>>}}

InitMatch ==
  /\ \/ /\ boundaryData \in SeqsUpTo(PolygonPool, MaxPolygons)
        /\ areaCounts \in TargetLists
        /\ centerHints \in CenterChoices(areaCounts)
     \/ /\ boundaryData \in SeqsUpTo(PrefecturePool, MaxPolygons)
        /\ areaCounts \in PrefectureTargetLists
        /\ centerHints = NullObject
  /\ matchedFeatures = <<>>
  /\ matchPc = "call"
  /\ kanjiIdle /\ chomeIdle /\ aggIdle /\ geoIdle /\ batchIdle /\ cacheIdle /\ normIdle /\ parseIdle

CreateCityFeatures ==
  /\ matchPc = "call"
  /\ matchedFeatures' = createCityFeatures(boundaryData, areaCounts)
  /\ matchPc' = "city"
  /\ UNCHANGED <<boundaryData, areaCounts, centerHints, kanjiVars, chomeVars, aggVars, geoVars, batchVars, cacheVars, normVars, parseVars>>

CreateTownFeatures ==
  /\ matchPc = "call"
  /\ matchedFeatures' = createTownFeatures(boundaryData, areaCounts, centerHints)
  /\ matchPc' = "town"
  /\ UNCHANGED <<boundaryData, areaCounts, centerHints, kanjiVars, chomeVars, aggVars, geoVars, batchVars, cacheVars, normVars, parseVars>>

CreatePrefectureFeatures ==
  /\ matchPc = "call"
  /\ matchedFeatures' = createPrefectureFeatures(boundaryData, areaCounts)
  /\ matchPc' = "prefecture"
  /\ UNCHANGED <<boundaryData, areaCounts, centerHints, kanjiVars, chomeVars, aggVars, geoVars, batchVars, cacheVars, normVars, parseVars>>

NextMatch == CreatePrefectureFeatures \/ CreateCityFeatures \/ CreateTownFeatures
SpecMatch == InitMatch /\ [][NextMatch]_vars

(***************************************************************************)
(* SpecBatch: one run of batchReverseGeocode, or of the updateAddressInfo   *)
(* loop, over up to MaxBatch coordinates.  An action is the code between    *)
(* two awaits.  eventLog records what happened in order:                    *)
(*   "request" k   reverseGeocode called for the k-th coordinate            *)
(*   "complete" k  that call has resolved                                   *)
(*   "progress" k  onProgress(k, n) called                                  *)
(*   "update" k    the row update for the k-th photo issued                 *)
(*   "delay" ms    the timer of ms milliseconds has fired                   *)
(*   "cancel"      the caller has asked for the batch to stop               *)
(***************************************************************************)
\* setTimeout(resolve, 120) and setTimeout(resolve, 150)
BatchDelayMs == 120
UpdateDelayMs == 150

Event(ev, k, n) == [ev |-> ev, k |-> k, n |-> n]

\* the provider fetches one reverseGeocode call makes: none without a token
Fetches(resp) == IF resp.outcome = "noToken" THEN 0 ELSE 1

\* geocodeResult.prefecture || geocodeResult.city || geocodeResult.town
AnyField(a) == Truthy(a.prefecture) \/ Truthy(a.city) \/ Truthy(a.town)

\* photos.filter(p => !p.prefecture && !p.city && !p.town)
photosNeedingUpdate(list) == SelectSeq(list, LAMBDA p : ~AnyField(p.address))

\* the list the running loop iterates over, and its length
Work == IF batchKind = "update" THEN photosNeedingUpdate(coords) ELSE coords
Total == Len(Work)

HasDelayAfterOffByOne(i, n) == i < n - 2

\* i < coordinates.length - 1
HasDelayAfter(i, n) == i < n - 1

PushFront(list, result) == <<result>> \o list

\* results.push(result)
Push(list, result) == Append(list, result)

OkResponse(region) ==
  [outcome |-> "ok", features |-> <<Feature("region", region)>>, context |-> <<>>]
FailedResponse(o) == [outcome |-> o, features |-> <<>>, context |-> <<>>]

Coordinate(resp) == [address |-> AllNull, resp |-> resp, updateError |-> FALSE]

CoordinatePool ==
  {Coordinate(OkResponse(Tokyo)), Coordinate(OkResponse(Osaka))}
    \cup {Coordinate(FailedResponse(o)) : o \in FailedOutcomes}

\* rows of the photos table: one already holds an address, one row update
\* resolves with an error
StoredPhotoPool ==
  { [address |-> AllNull, resp |-> OkResponse(Tokyo), updateError |-> FALSE],
    [address |-> AllNull, resp |-> OkResponse(Osaka), updateError |-> TRUE],
    [address |-> AllNull, resp |-> FailedResponse("noToken"), updateError |-> FALSE],
    [address |-> AllNull, resp |-> FailedResponse("networkError"), updateError |-> FALSE],
    [address |-> [prefecture |-> Tokyo, city |-> Null, town |-> Null],
     resp |-> OkResponse(Tokyo), updateError |-> FALSE] }

CoordinateLists == SeqsUpTo(CoordinatePool, MaxBatch)
StoredPhotoLists == SeqsUpTo(StoredPhotoPool, MaxBatch)

InitBatch ==
  /\ \/ /\ batchKind = "batch" /\ loggedIn = TRUE
        /\ coords \in CoordinateLists
     \/ /\ batchKind = "update" /\ loggedIn \in BOOLEAN
        /\ coords \in StoredPhotoLists
  /\ batchI = 0 /\ batchPc = "call" /\ inFlight = 0
  /\ results = <<>> /\ updated = 0
  /\ cancelRequested = FALSE /\ eventLog = <<>>
  /\ kanjiIdle /\ chomeIdle /\ aggIdle /\ geoIdle /\ matchIdle /\ cacheIdle /\ normIdle /\ parseIdle

\* reverseGeocode.ts:199-208: the call runs up to its first await
CallBatchReverseGeocode ==
  /\ batchKind = "batch" /\ batchPc = "call"
  /\ batchI' = 0 /\ results' = <<>>
  /\ IF Total = 0
     THEN /\ batchPc' = "done"
          /\ UNCHANGED <<inFlight, eventLog>>
     ELSE /\ batchPc' = "request"
          /\ inFlight' = inFlight + Fetches(Work[1].resp)
          /\ eventLog' = Append(eventLog, Event("request", 1, Total))
  /\ UNCHANGED <<batchKind, loggedIn, coords, updated, cancelRequested>>
  /\ UNCHANGED <<kanjiVars, chomeVars, aggVars, geoVars, matchVars, cacheVars, normVars, parseVars>>

\* reverseGeocode.ts:208-219: the awaited reverseGeocode resolves
BatchRequestCompletes ==
  /\ batchKind = "batch" /\ batchPc = "request"
  /\ LET k == batchI + 1
         result == reverseGeocode(Work[k].resp)
     IN  /\ inFlight' = inFlight - Fetches(Work[k].resp)
         /\ results' = Push(results, result)
         /\ eventLog' = eventLog \o <<Event("complete", k, Total), Event("progress", k, Total)>>
         /\ IF HasDelayAfter(batchI, Total)
            THEN batchPc' = "delay" /\ batchI' = batchI
            ELSE batchPc' = "done" /\ batchI' = batchI + 1
  /\ UNCHANGED <<batchKind, loggedIn, coords, updated, cancelRequested>>
  /\ UNCHANGED <<kanjiVars, chomeVars, aggVars, geoVars, matchVars, cacheVars, normVars, parseVars>>

\* reverseGeocode.ts:206-208, 215: the timer fires and the next iteration starts
BatchTimerFires ==
  /\ batchKind = "batch" /\ batchPc = "delay"
  /\ batchI' = batchI + 1
  /\ batchPc' = "request"
  /\ inFlight' = inFlight + Fetches(Work[batchI + 2].resp)
  /\ eventLog' = eventLog \o <<Event("delay", BatchDelayMs, Total),
                               Event("request", batchI + 2, Total)>>
  /\ UNCHANGED <<batchKind, loggedIn, coords, results, updated, cancelRequested>>
  /\ UNCHANGED <<kanjiVars, chomeVars, aggVars, geoVars, matchVars, cacheVars, normVars, parseVars>>

\* part_000:174-192: the call runs up to its first await
CallUpdateAddressInfo ==
  /\ batchKind = "update" /\ batchPc = "call"
  /\ batchI' = 0 /\ updated' = 0
  /\ IF ~loggedIn \/ Total = 0
     THEN /\ batchPc' = "done"
          /\ UNCHANGED <<inFlight, eventLog>>
     ELSE /\ batchPc' = "request"
          /\ inFlight' = inFlight + Fetches(Work[1].resp)
          /\ eventLog' = eventLog \o <<Event("progress", 1, Total), Event("request", 1, Total)>>
  /\ UNCHANGED <<batchKind, loggedIn, coords, results, cancelRequested>>
  /\ UNCHANGED <<kanjiVars, chomeVars, aggVars, geoVars, matchVars, cacheVars, normVars, parseVars>>

\* part_000:192-213: the awaited reverseGeocode resolves; a result with a field
\* starts the row update, an empty one goes on to the delay
UpdateRequestCompletes ==
  /\ batchKind = "update" /\ batchPc = "request"
  /\ LET k == batchI + 1
         geocodeResult == reverseGeocode(Work[k].resp)
     IN  /\ inFlight' = inFlight - Fetches(Work[k].resp)
         /\ IF AnyField(geocodeResult)
            THEN /\ batchPc' = "updating" /\ batchI' = batchI
                 /\ eventLog' = eventLog \o <<Event("complete", k, Total),
                                              Event("update", k, Total)>>
            ELSE /\ eventLog' = Append(eventLog, Event("complete", k, Total))
                 /\ IF HasDelayAfter(batchI, Total)
                    THEN batchPc' = "delay" /\ batchI' = batchI
                    ELSE batchPc' = "done" /\ batchI' = batchI + 1
  /\ UNCHANGED <<batchKind, loggedIn, coords, results, updated, cancelRequested>>
  /\ UNCHANGED <<kanjiVars, chomeVars, aggVars, geoVars, matchVars, cacheVars, normVars, parseVars>>

\* part_000:195-213: the row update resolves with or without an error
UpdateRowCompletes ==
  /\ batchKind = "update" /\ batchPc = "updating"
  /\ LET k == batchI + 1
     IN  IF Work[k].updateError
         THEN UNCHANGED <<updated, results>>
         ELSE /\ updated' = updated + 1
              /\ results' = Append(results, reverseGeocode(Work[k].resp))
  /\ IF HasDelayAfter(batchI, Total)
     THEN batchPc' = "delay" /\ batchI' = batchI
     ELSE batchPc' = "done" /\ batchI' = batchI + 1
  /\ UNCHANGED <<batchKind, loggedIn, coords, inFlight, cancelRequested, eventLog>>
  /\ UNCHANGED <<kanjiVars, chomeVars, aggVars, geoVars, matchVars, cacheVars, normVars, parseVars>>

\* part_000:187-192, 212: the timer fires and the next iteration starts
UpdateTimerFires ==
  /\ batchKind = "update" /\ batchPc = "delay"
  /\ batchI' = batchI + 1
  /\ batchPc' = "request"
  /\ inFlight' = inFlight + Fetches(Work[batchI + 2].resp)
  /\ eventLog' = eventLog \o <<Event("delay", UpdateDelayMs, Total),
                               Event("progress", batchI + 2, Total),
                               Event("request", batchI + 2, Total)>>
  /\ UNCHANGED <<batchKind, loggedIn, coords, results, updated, cancelRequested>>
  /\ UNCHANGED <<kanjiVars, chomeVars, aggVars, geoVars, matchVars, cacheVars, normVars, parseVars>>

\* The caller decides, while the loop is suspended, that the batch should stop.
\* Neither function takes a signal or reads a flag, so nothing else changes.
Cancel ==
  /\ batchPc \in {"request", "updating", "delay"}
  /\ ~cancelRequested
  /\ cancelRequested' = TRUE
  /\ eventLog' = Append(eventLog, Event("cancel", 0, Total))
  /\ UNCHANGED <<batchKind, loggedIn, coords, batchI, batchPc, inFlight, results, updated>>
  /\ UNCHANGED <<kanjiVars, chomeVars, aggVars, geoVars, matchVars, cacheVars, normVars, parseVars>>

NextBatch ==
  \/ CallBatchReverseGeocode
  \/ BatchRequestCompletes
  \/ BatchTimerFires
  \/ CallUpdateAddressInfo
  \/ UpdateRequestCompletes
  \/ UpdateRowCompletes
  \/ UpdateTimerFires
  \/ Cancel
SpecBatch == InitBatch /\ [][NextBatch]_vars

(***************************************************************************)
(* SpecCache: up to MaxCalls calls of loadPrefectureGeoJSON,                *)
(* loadCityGeoJSON and loadTownGeoJSON, their fetches settling in any order,*)
(* and up to MaxClears calls of clearGeoDataCache in between.  An action is *)
(* the code that runs between two awaits.  A FeatureCollection is named by  *)
(* the id of the fetch that produced it; one fetched with outcome "ok"      *)
(* holds one feature, named by the same id, one fetched "okEmpty" holds     *)
(* none.                                                                    *)
(***************************************************************************)
\* !code
NoCode == ""

\* the entries of PREFECTURE_CODES for 東京都, 大阪府, 東京, 大阪, in the object's order
TokyoShort == <<"tou", "kyou">>
OsakaShort == <<"oo", "saka">>
PREFECTURE_CODES ==
  << [name |-> Tokyo, code |-> "13"], [name |-> Osaka, code |-> "27"],
     [name |-> TokyoShort, code |-> "13"], [name |-> OsakaShort, code |-> "27"] >>

getPrefectureCode(prefectureName) ==
  LET direct == {i \in 1..Len(PREFECTURE_CODES) : PREFECTURE_CODES[i].name = prefectureName}
      normalized == normalizePrefectureName(prefectureName)
      loose == {i \in 1..Len(PREFECTURE_CODES) :
                  normalizePrefectureName(PREFECTURE_CODES[i].name) = normalized}
  IN  IF direct # {} THEN PREFECTURE_CODES[MinOf(direct)].code
      ELSE IF loose # {} THEN PREFECTURE_CODES[MinOf(loose)].code
      ELSE NoCode

\* what the server and the network give one fetch
FetchOutcomes == {"ok", "okEmpty", "networkError", "notOk", "invalid"}

\* Lines 351-369: the collection for a valid payload, null for everything else
fetchGeoJSON(outcome) == IF outcome \in {"ok", "okEmpty"} THEN outcome ELSE "null"

\* data.features of the collection fetch id produced
FeaturesOf(id) == IF fetches[id].state = "ok" THEN <<id>> ELSE <<>>

\* the lists of prefecture names a city or town load is called with:
\* 東京都 | 東京都, 東京 | 東京都, 大阪府 | 不明, 大阪 | none
NameLists ==
  { <<Tokyo>>, <<Tokyo, TokyoShort>>, <<Tokyo, Osaka>>, <<Unknown, OsakaShort>>, <<>> }

NoResult == [none |-> TRUE, data |-> 0, features |-> <<>>]

CollectionNeverNull(features) == [none |-> FALSE, data |-> 0, features |-> features]

\* features.length === 0 ? null : { type: 'FeatureCollection', features }
CollectionOrNull(features) == [none |-> features = <<>>, data |-> 0, features |-> features]

CacheOf(level) == IF level = "city" THEN cityGeoJSONCache ELSE townGeoJSONCache

\* Lines 94-121: the loop over prefectureNames[1..n]: the features taken from
\* the cache and the codes a fetch is started for
RECURSIVE LoadLoop(_, _, _)
LoadLoop(cache, prefectureNames, n) ==
  IF n = 0 THEN [features |-> <<>>, toFetch |-> <<>>]
  ELSE LET acc == LoadLoop(cache, prefectureNames, n - 1)
           code == getPrefectureCode(prefectureNames[n])
       IN  IF code = NoCode THEN acc
           ELSE IF cache[code] # 0
                THEN [acc EXCEPT !.features = @ \o FeaturesOf(cache[code])]
                ELSE [acc EXCEPT !.toFetch = Append(@, code)]

InitCache ==
  /\ cacheIdle /\ normIdle
  /\ kanjiIdle /\ chomeIdle /\ aggIdle /\ geoIdle /\ matchIdle /\ batchIdle /\ normIdle /\ parseIdle

\* Lines 66-77: loadPrefectureGeoJSON up to its await
LoadPrefectureGeoJSON ==
  /\ Len(calls) < MaxCalls
  /\ LET call == [kind |-> "prefecture", names |-> <<>>, pc |-> "done", awaiting |-> {},
                  fromCache |-> <<>>, features |-> <<>>, result |-> NoResult]
         id == Len(fetches) + 1
     IN  IF prefectureGeoJSON # 0
         THEN /\ calls' = Append(calls,
                     [call EXCEPT !.result = [none |-> FALSE, data |-> prefectureGeoJSON,
                                              features |-> FeaturesOf(prefectureGeoJSON)],
                                  !.fromCache = <<prefectureGeoJSON>>])
              /\ UNCHANGED <<isLoadingPrefecture, loadPrefecturePromise, fetches>>
         ELSE IF isLoadingPrefecture /\ loadPrefecturePromise # 0
         THEN /\ calls' = Append(calls, [call EXCEPT !.pc = "shared",
                                                     !.awaiting = {loadPrefecturePromise}])
              /\ UNCHANGED <<isLoadingPrefecture, loadPrefecturePromise, fetches>>
         ELSE /\ isLoadingPrefecture' = TRUE
              /\ loadPrefecturePromise' = id
              /\ fetches' = Append(fetches, [level |-> "prefecture", code |-> "japan",
                                             state |-> "pending", owner |-> Len(calls) + 1,
                                             clearsBefore |-> clears])
              /\ calls' = Append(calls, [call EXCEPT !.pc = "await", !.awaiting = {id}])
  /\ UNCHANGED <<prefectureGeoJSON, cityGeoJSONCache, townGeoJSONCache, clears>>
  /\ UNCHANGED <<kanjiVars, chomeVars, aggVars, geoVars, matchVars, batchVars, normVars, parseVars>>

\* Lines 78-83: the prefecture fetch settles; the call that started it stores
\* what it got and clears the flag, and every call that returned the stored
\* promise resolves with the same value
PrefectureFetchSettles ==
  \E id \in 1..Len(fetches), outcome \in FetchOutcomes :
    /\ fetches[id].level = "prefecture" /\ fetches[id].state = "pending"
    /\ LET got == fetchGeoJSON(outcome)
           data == IF got = "null" THEN 0 ELSE id
           value == [none |-> got = "null", data |-> data,
                     features |-> IF got = "ok" THEN <<id>> ELSE <<>>]
       IN  /\ fetches' = [fetches EXCEPT ![id].state = got]
           /\ prefectureGeoJSON' = data
           /\ isLoadingPrefecture' = FALSE
           /\ calls' = [c \in 1..Len(calls) |->
                          IF calls[c].pc \in {"await", "shared"} /\ calls[c].awaiting = {id}
                          THEN [calls[c] EXCEPT !.pc = "done", !.awaiting = {},
                                                !.features = value.features,
                                                !.result = value]
                          ELSE calls[c]]
    /\ UNCHANGED <<cityGeoJSONCache, townGeoJSONCache, loadPrefecturePromise, clears>>
    /\ UNCHANGED <<kanjiVars, chomeVars, aggVars, geoVars, matchVars, batchVars, normVars, parseVars>>

\* Lines 90-124 and 140-174: the loop over the names, up to await Promise.all
LoadAreaGeoJSON(level, prefectureNames) ==
  /\ Len(calls) < MaxCalls
  /\ LET loop == LoadLoop(CacheOf(level), prefectureNames, Len(prefectureNames))
         first == Len(fetches) + 1
         ids == {first + j - 1 : j \in 1..Len(loop.toFetch)}
     IN  /\ fetches' = fetches \o
                          [j \in 1..Len(loop.toFetch) |->
                             [level |-> level, code |-> loop.toFetch[j],
                              state |-> "pending", owner |-> Len(calls) + 1,
                              clearsBefore |-> clears]]
         /\ calls' = Append(calls,
                [kind |-> level, names |-> prefectureNames,
                 pc |-> IF ids = {} THEN "done" ELSE "await",
                 awaiting |-> ids,
                 fromCache |-> loop.features,
                 features |-> loop.features,
                 result |-> IF ids = {} THEN CollectionOrNull(loop.features) ELSE NoResult])
  /\ UNCHANGED <<prefectureGeoJSON, cityGeoJSONCache, townGeoJSONCache,
                 isLoadingPrefecture, loadPrefecturePromise, clears>>
  /\ UNCHANGED <<kanjiVars, chomeVars, aggVars, geoVars, matchVars, batchVars, normVars, parseVars>>

LoadCityGeoJSON == \E prefectureNames \in NameLists : LoadAreaGeoJSON("city", prefectureNames)

LoadTownGeoJSON == \E prefectureNames \in NameLists : LoadAreaGeoJSON("town", prefectureNames)

\* Lines 109-120 and 125-133: one fetch of a city or town load settles; data
\* is cached and its features pushed; when it was the call's last fetch the
\* call resolves
AreaFetchSettles ==
  \E id \in 1..Len(fetches), outcome \in FetchOutcomes :
    /\ fetches[id].level \in {"city", "town"} /\ fetches[id].state = "pending"
    /\ LET got == fetchGeoJSON(outcome)
           code == fetches[id].code
           c == fetches[id].owner
           pushed == IF got = "ok" THEN Append(calls[c].features, id) ELSE calls[c].features
           left == calls[c].awaiting \ {id}
       IN  /\ fetches' = [fetches EXCEPT ![id].state = got]
           /\ IF got # "null" /\ fetches[id].level = "city"
              THEN cityGeoJSONCache' = [cityGeoJSONCache EXCEPT ![code] = id]
              ELSE UNCHANGED cityGeoJSONCache
           /\ IF got # "null" /\ fetches[id].level = "town"
              THEN townGeoJSONCache' = [townGeoJSONCache EXCEPT ![code] = id]
              ELSE UNCHANGED townGeoJSONCache
           /\ calls' = [calls EXCEPT ![c] =
                          [@ EXCEPT !.features = pushed,
                                    !.awaiting = left,
                                    !.pc = IF left = {} THEN "done" ELSE "await",
                                    !.result = IF left = {} THEN CollectionOrNull(pushed)
                                               ELSE NoResult]]
    /\ UNCHANGED <<prefectureGeoJSON, isLoadingPrefecture, loadPrefecturePromise, clears>>
    /\ UNCHANGED <<kanjiVars, chomeVars, aggVars, geoVars, matchVars, batchVars, normVars, parseVars>>

\* Lines 570-575
ClearGeoDataCache ==
  /\ clears < MaxClears
  /\ prefectureGeoJSON' = 0
  /\ cityGeoJSONCache' = EmptyCache
  /\ townGeoJSONCache' = EmptyCache
  /\ loadPrefecturePromise' = 0
  /\ clears' = clears + 1
  /\ UNCHANGED <<isLoadingPrefecture, fetches, calls>>
  /\ UNCHANGED <<kanjiVars, chomeVars, aggVars, geoVars, matchVars, batchVars, normVars, parseVars>>

NextCache ==
  \/ LoadPrefectureGeoJSON
  \/ PrefectureFetchSettles
  \/ LoadCityGeoJSON
  \/ LoadTownGeoJSON
  \/ AreaFetchSettles
  \/ ClearGeoDataCache
SpecCache == InitCache /\ [][NextCache]_vars

(***************************************************************************)
(* SpecNormalize: normalizePrefectureName and normalizeCityName applied to  *)
(* a name of up to MaxNameLen characters over 都 府 市 区 町 大 and space.       *)
(***************************************************************************)
NameAlphabet == {"to", "fu", "shi", "ku", "machi", "oo", "sp"}

InitNormalize ==
  /\ rawName \in SeqsUpTo(NameAlphabet, MaxNameLen)
  /\ normalizedName = <<>>
  /\ normPc = "call"
  /\ kanjiIdle /\ chomeIdle /\ aggIdle /\ geoIdle /\ matchIdle /\ batchIdle /\ cacheIdle /\ parseIdle

NormalizePrefectureName ==
  /\ normPc = "call"
  /\ normalizedName' = normalizePrefectureName(rawName)
  /\ normPc' = "prefecture"
  /\ UNCHANGED <<rawName, kanjiVars, chomeVars, aggVars, geoVars, matchVars, batchVars,
                 cacheVars, parseVars>>

NormalizeCityName ==
  /\ normPc = "call"
  /\ normalizedName' = normalizeCityName(rawName)
  /\ normPc' = "city"
  /\ UNCHANGED <<rawName, kanjiVars, chomeVars, aggVars, geoVars, matchVars, batchVars,
                 cacheVars, parseVars>>

NextNormalize == NormalizePrefectureName \/ NormalizeCityName
SpecNormalize == InitNormalize /\ [][NextNormalize]_vars

(***************************************************************************)
(* Claims about the aggregations.                                          *)
(***************************************************************************)
RECURSIVE SumCounts(_)
SumCounts(cells) == IF cells = <<>> THEN 0 ELSE Head(cells).count + SumCounts(Tail(cells))

Occurrences(seq, v) == Cardinality({i \in 1..Len(seq) : seq[i] = v})

RECURSIVE OccurrencesInCells(_, _)
OccurrencesInCells(cells, v) ==
  IF cells = <<>> THEN 0
  ELSE Occurrences(Head(cells).photos, v) + OccurrencesInCells(Tail(cells), v)

CountsOf(cells) == {cells[i].count : i \in 1..Len(cells)}

\* C1: for a non-empty list of observations buildPhotoGrid places each observation
\* in exactly one cell: the counts sum to the number of observations, every cell's
\* count is the length of its photos list, and every observation occurs in the
\* cells as often as in the input.
C1_GridPartitionsPhotos ==
  (gridPc = "return" /\ photos # <<>>) =>
    /\ SumCounts(gridStats.cells) = Len(photos)
    /\ \A i \in 1..Len(gridStats.cells) :
         gridStats.cells[i].count = Len(gridStats.cells[i].photos)
    /\ \A i \in 1..Len(photos) :
         OccurrencesInCells(gridStats.cells, photos[i]) = Occurrences(photos, photos[i])

\* Three observations, two of them sharing a cell.
C1_TwoShareACell ==
  /\ gridPc = "return" /\ Len(photos) = 3 /\ Len(gridStats.cells) = 2
  /\ photos[1] # photos[2] /\ photos[2] # photos[3] /\ photos[1] # photos[3]

\* intensity = ln(count + 1) / ln(maxCount + 1), in thousandths rounded down, with
\* maxCount the largest count of the run; in [0, 1]; non-decreasing in count; 1 at
\* maxCount; no cell and maxCount 0 for no observation.
IntensityLaw(cells, maxCount, input) ==
  /\ maxCount = (IF cells = <<>> THEN 0 ELSE MaxOf(CountsOf(cells)))
  /\ (input = <<>>) => (maxCount = 0 /\ cells = <<>>)
  /\ \A i \in 1..Len(cells) :
       LET c == cells[i]
       IN  /\ c.intensity * MathLog(maxCount + 1) <= MathLog(c.count + 1) * 1000
           /\ MathLog(c.count + 1) * 1000 < (c.intensity + 1) * MathLog(maxCount + 1)
           /\ 0 <= c.intensity /\ c.intensity <= 1000
           /\ (c.count = maxCount) => c.intensity = 1000
           /\ \A j \in 1..Len(cells) :
                cells[j].count <= c.count => cells[j].intensity <= c.intensity

\* C2: in the result of one buildPhotoGrid or buildAdminBoundaryStats call every
\* cell's intensity follows the log-scale law above.
C2_IntensityLaw ==
  /\ gridPc = "return" => IntensityLaw(gridStats.cells, gridStats.maxCount, photos)
  /\ adminPc = "return" => IntensityLaw(adminStats.cells, adminStats.maxCount, photos)

\* Both results hold a cell below the maximum, with an intensity strictly between 0 and 1.
C2_MixedCounts ==
  /\ gridPc = "return" /\ adminPc = "return"
  /\ \E i \in 1..Len(gridStats.cells) :
       gridStats.cells[i].count < gridStats.maxCount
       /\ 0 < gridStats.cells[i].intensity /\ gridStats.cells[i].intensity < 1000
  /\ \E i \in 1..Len(adminStats.cells) :
       adminStats.cells[i].count < adminStats.maxCount
       /\ 0 < adminStats.cells[i].intensity /\ adminStats.cells[i].intensity < 1000

SortedByCount(cells, maxCount, total) ==
  /\ \A i \in 1..(Len(cells) - 1) : cells[i].count >= cells[i + 1].count
  /\ cells # <<>> => cells[1].count = maxCount
  /\ total = Len(cells)

\* C3: the cells of buildPhotoGrid and of buildAdminBoundaryStats are in
\* non-increasing order of count, the first cell's count is maxCount, and
\* totalCells / totalAreas is the number of cells.
C3_CellsSortedByCount ==
  /\ gridPc = "return" => SortedByCount(gridStats.cells, gridStats.maxCount, gridStats.totalCells)
  /\ adminPc = "return" => SortedByCount(adminStats.cells, adminStats.maxCount, adminStats.totalAreas)

\* The first observation is alone in its cell and area, and a later group of two
\* is ranked before it.
C3_SortReorders ==
  /\ gridPc = "return" /\ adminPc = "return" /\ Len(photos) = 3
  /\ Len(gridStats.cells) = 2 /\ gridStats.cells[2].photos = <<photos[1]>>
  /\ Len(adminStats.cells) = 2 /\ adminStats.cells[2].photos = <<photos[1]>>

Present(field) == field # Null /\ field # <<>>

\* The area key as C4 states it: the parent field stands in for a missing child.
ClaimedAreaKey(photo, level) ==
  CASE level = "prefecture" ->
         IF Present(photo.prefecture) THEN photo.prefecture ELSE Unknown
    [] level = "city" ->
         IF Present(photo.prefecture) /\ Present(photo.city)
         THEN photo.prefecture \o <<"sp">> \o photo.city
         ELSE IF Present(photo.prefecture) THEN photo.prefecture
         ELSE IF Present(photo.city) THEN photo.city
         ELSE Unknown
    [] level = "town" ->
         IF Present(photo.city) /\ Present(photo.town)
         THEN photo.city \o <<"sp">> \o photo.town
         ELSE IF Present(photo.city) THEN photo.city
         ELSE IF Present(photo.town) THEN photo.town
         ELSE Unknown

\* The area key the code derives: without the level's own field the key is 不明.
OwnFieldAreaKey(photo, level) ==
  CASE level = "prefecture" ->
         IF Present(photo.prefecture) THEN photo.prefecture ELSE Unknown
    [] level = "city" ->
         IF ~Present(photo.city) THEN Unknown
         ELSE IF Present(photo.prefecture) THEN photo.prefecture \o <<"sp">> \o photo.city
         ELSE photo.city
    [] level = "town" ->
         IF ~Present(photo.town) THEN Unknown
         ELSE IF Present(photo.city) THEN photo.city \o <<"sp">> \o photo.town
         ELSE photo.town

InCellNamed(cells, name, photo) ==
  \E i \in 1..Len(cells) :
    cells[i].name = name /\ \E j \in 1..Len(cells[i].photos) : cells[i].photos[j] = photo

\* C4 as stated: every observation is in the cell named by the key in which the
\* parent field (prefecture at city level, city at town level) replaces a missing
\* child field, 不明 being used only when both are missing.
C4_ClaimedAreaKey ==
  adminPc = "return" =>
    \A i \in 1..Len(photos) :
      InCellNamed(adminStats.cells, ClaimedAreaKey(photos[i], adminStats.level), photos[i])

\* C4 as amended: prefecture level keys by the prefecture; city level by
\* "{prefecture} {city}" when both are present and by the city when only it is;
\* town level by "{city} {town}" when both are present and by the town when only it
\* is; an observation without the level's own field (non-empty) is keyed 不明, also
\* when its parent field is present.
C4_OwnFieldAreaKey ==
  adminPc = "return" =>
    /\ \A i \in 1..Len(photos) :
         InCellNamed(adminStats.cells, OwnFieldAreaKey(photos[i], adminStats.level), photos[i])
    /\ \A i \in 1..Len(adminStats.cells) : \A j \in 1..Len(adminStats.cells[i].photos) :
         OwnFieldAreaKey(adminStats.cells[i].photos[j], adminStats.level) = adminStats.cells[i].name

\* At city level an observation with a prefecture and no city is filed under 不明,
\* beside one keyed "東京都 中野区".
C4_PrefectureOnlyIsUnknown ==
  /\ adminPc = "return" /\ adminStats.level = "city"
  /\ \E i \in 1..Len(photos) :
       /\ Present(photos[i].prefecture) /\ ~Present(photos[i].city)
       /\ InCellNamed(adminStats.cells, Unknown, photos[i])
  /\ \E i \in 1..Len(adminStats.cells) : adminStats.cells[i].name = Tokyo \o <<"sp">> \o Nakano

IndicesKeyed(name) == {i \in 1..Len(photos) : AreaName(photos[i], adminStats.level) = name}

RECURSIVE SumOver(_, _)
SumOver(I, f) ==
  IF I = {} THEN 0 ELSE LET i == CHOOSE i \in I : TRUE IN f[i] + SumOver(I \ {i}, f)

\* C5: at every level the observations that derive one area key are in exactly one
\* cell, whose count is their number and whose centre is the coordinate-wise
\* arithmetic mean of their latitudes and longitudes, in whatever order they come.
C5_OneCellPerKeyWithMeanCentre ==
  adminPc = "return" =>
    /\ \A i, j \in 1..Len(adminStats.cells) :
         adminStats.cells[i].name = adminStats.cells[j].name => i = j
    /\ \A i \in 1..Len(photos) :
         \E j \in 1..Len(adminStats.cells) :
           adminStats.cells[j].name = AreaName(photos[i], adminStats.level)
    /\ \A j \in 1..Len(adminStats.cells) :
         LET c == adminStats.cells[j]
             I == IndicesKeyed(c.name)
         IN  /\ c.count = Cardinality(I)
             /\ c.count > 0
             /\ c.centerLat[1] * c.count
                  = SumOver(I, [i \in 1..Len(photos) |-> photos[i].latitude]) * c.centerLat[2]
             /\ c.centerLng[1] * c.count
                  = SumOver(I, [i \in 1..Len(photos) |-> photos[i].longitude]) * c.centerLng[2]

\* Two observations with the same prefecture and city and no town, at different
\* places, are one city-level cell of count 2 centred at their mean.
C5_TwoCollapse ==
  /\ adminPc = "return" /\ adminStats.level = "city" /\ Len(photos) = 2
  /\ photos[1].prefecture = photos[2].prefecture /\ Present(photos[1].prefecture)
  /\ photos[1].city = photos[2].city /\ Present(photos[1].city)
  /\ photos[1].town = Null /\ photos[2].town = Null
  /\ photos[1].latitude # photos[2].latitude
  /\ Len(adminStats.cells) = 1 /\ adminStats.cells[1].count = 2
  /\ adminStats.cells[1].centerLat = Frac(photos[1].latitude + photos[2].latitude, 2)
  /\ adminStats.cells[1].centerLng = Frac(photos[1].longitude + photos[2].longitude, 2)

(***************************************************************************)
(* Claims about reverseGeocode.                                            *)
(***************************************************************************)
\* What steps 1-5 pick before the final comparison of town with city
Picked(resp) ==
  Classify(CollectedNames(resp), extractChomeFromAddress(CollectedNames(resp).address))

\* C6: the address returned never has a town that is textually equal to its city:
\* whenever the classification picks equal non-null city and town, the town is
\* returned as null and the city is kept.
C6_TownNeverEqualsCity ==
  (geoPc = "return" /\ response.outcome = "ok") =>
    /\ address.town # Null => address.town # address.city
    /\ (Picked(response).city # Null /\ Picked(response).town = Picked(response).city)
         => (address.town = Null /\ address.city = Picked(response).city)

\* What the code does hold to: a non-empty town differs from the city.
C6_NonEmptyTownDiffersFromCity ==
  (geoPc = "return" /\ address.town # Null /\ address.town # <<>>) =>
    address.town # address.city

\* An empty locality name and a blank address text: city and town are both "".
C6_EmptyCityAndTown ==
  /\ geoPc = "return"
  /\ response.features = <<Feature("locality", <<>>), Feature("address", <<"sp">>)>>
  /\ address = [prefecture |-> Null, city |-> <<>>, town |-> <<>>]

\* The rules of C7, each guarded by the failure of the rules before it.  "Present"
\* is non-null and non-empty, "a or b" is a when a is present and b otherwise, and
\* "place equals region" is plain equality, which also holds when both are missing.
RuleA(n) == Present(n.locality) /\ EndsWithKu(n.locality)
RuleB(n) == ~RuleA(n) /\ Present(n.district) /\ EndsWithKu(n.district)
RuleC(n) == ~RuleA(n) /\ ~RuleB(n) /\ Present(n.place) /\ n.place # n.region
RuleD(n) == ~RuleA(n) /\ ~RuleB(n) /\ ~RuleC(n) /\ n.place = n.region /\ Present(n.locality)
RuleE(n) == ~RuleA(n) /\ ~RuleB(n) /\ ~RuleC(n) /\ ~RuleD(n)

OrElse(a, b) == IF Present(a) THEN a ELSE b

RuleCity(n) ==
  CASE RuleA(n) -> n.locality
    [] RuleB(n) -> n.district
    [] RuleC(n) -> n.place
    [] RuleD(n) -> n.locality
    [] RuleE(n) -> OrElse(OrElse(n.place, n.district), n.locality)

RuleTown(n, chome) ==
  CASE RuleA(n) -> OrElse(n.neighborhood, chome)
    [] RuleB(n) -> OrElse(OrElse(n.neighborhood, chome), n.locality)
    [] RuleC(n) -> OrElse(OrElse(n.neighborhood, chome), n.locality)
    [] RuleD(n) -> OrElse(n.neighborhood, chome)
    [] RuleE(n) -> OrElse(n.neighborhood, chome)

\* C7: from the collected names reverseGeocode returns prefecture = region and the
\* city of the first applicable rule (a)-(e); the town is that rule's town, or null
\* where that town is the same non-empty text as the city.
C7_ClassificationRules ==
  (geoPc = "return" /\ response.outcome = "ok") =>
    LET n == CollectedNames(response)
        chome == IF Present(n.address) THEN normalizeChome(n.address) ELSE Null
    IN  /\ address.prefecture = n.region
        /\ address.city = RuleCity(n)
        /\ address.town = (IF Present(RuleTown(n, chome)) /\ RuleTown(n, chome) = RuleCity(n)
                           THEN Null ELSE RuleTown(n, chome))

\* locality 中野区, place 東京都, region 東京都: prefecture 東京都, city 中野区
C7_NakanoWard ==
  /\ geoPc = "return" /\ response.outcome = "ok"
  /\ CollectedNames(response).locality = Nakano
  /\ CollectedNames(response).place = Tokyo
  /\ CollectedNames(response).region = Tokyo
  /\ address.prefecture = Tokyo /\ address.city = Nakano

\* Each of the rules (b)-(e) decides some response.
C7_RuleBFires == geoPc = "return" /\ response.outcome = "ok" /\ RuleB(CollectedNames(response))
C7_RuleCFires == geoPc = "return" /\ response.outcome = "ok" /\ RuleC(CollectedNames(response))
C7_RuleDFires ==
  /\ geoPc = "return" /\ response.outcome = "ok" /\ RuleD(CollectedNames(response))
  /\ CollectedNames(response).place = Null /\ Present(CollectedNames(response).district)
C7_RuleEFires ==
  /\ geoPc = "return" /\ response.outcome = "ok" /\ RuleE(CollectedNames(response))
  /\ Present(address.city)

(***************************************************************************)
(* The restricted grammar of kanji numerals: a digit 一..九, 十, or          *)
(* [一-九]?十[一-九]? read as 10*t + o with t defaulting to 1 and o to 0.     *)
(***************************************************************************)
GrammarToken(t, o) ==
  (IF t = 0 THEN <<>> ELSE <<KanjiDigits[t]>>) \o <<"k10">> \o
  (IF o = 0 THEN <<>> ELSE <<KanjiDigits[o]>>)

InGrammar(k) ==
  \/ \E d \in 1..9 : k = <<KanjiDigits[d]>>
  \/ \E t \in 0..9, o \in 0..9 : k = GrammarToken(t, o)

GrammarValue(k) ==
  IF \E d \in 1..9 : k = <<KanjiDigits[d]>>
  THEN CHOOSE d \in 1..9 : k = <<KanjiDigits[d]>>
  ELSE IF \E t \in 0..9, o \in 0..9 : k = GrammarToken(t, o)
  THEN LET p == CHOOSE p \in (0..9) \X (0..9) : k = GrammarToken(p[1], p[2])
       IN  (IF p[1] = 0 THEN 1 ELSE p[1]) * 10 + p[2]
  ELSE NoNumber

\* C8: kanjiToNumber returns the grammar's value for a token of the grammar and
\* null for every other token over the kanji-numeral alphabet (more than one 十,
\* more than one digit beside 十, 百).
C8_KanjiToNumberIsGrammar ==
  kanjiPc = "return" => kanjiNum = GrammarValue(kanji)

\* What the code does hold to: the grammar's tokens get the grammar's value.
C8_InGrammarValue ==
  (kanjiPc = "return" /\ InGrammar(kanji)) => kanjiNum = GrammarValue(kanji)

\* 十十 is converted to 10.
C8_MultiTenAccepted ==
  kanjiPc = "return" /\ kanji = <<"k10", "k10">> /\ kanjiNum = 10

(***************************************************************************)
(* normalizeChome as the specification words it: fold, strip, cut at the   *)
(* first 丁目, and rewrite the numeral run that ends at that 丁目 when the   *)
(* run is in the grammar.                                                  *)
(***************************************************************************)
RunStart(str, e) ==
  CHOOSE i \in 1..(e + 1) :
    /\ \A m \in i..e : str[m] \in KanjiNumeral
    /\ (i = 1 \/ str[i - 1] \notin KanjiNumeral)

ChomeByGrammar(str) ==
  LET y == StripWhiteSpace(toHalfWidthDigits(str))
      idx == IndexOf(y, <<"chou", "me">>)
  IN  IF idx = 0 THEN y
      ELSE LET i == RunStart(y, idx - 1)
               run == SubSeq(y, i, idx - 1)
           IN  IF InGrammar(run)
               THEN SubSeq(y, 1, i - 1) \o NumberToString(GrammarValue(run)) \o <<"chou", "me">>
               ELSE SubSeq(y, 1, idx + 1)

\* C9: normalizeChome folds full-width digits, removes white space, rewrites a
\* numeral run before 丁目 to its arabic value when the run is in the grammar, and
\* returns the prefix that ends with the first 丁目 (everything without a 丁目).
C9_NormalizeChomeByGrammar ==
  x # Pending /\ x # Idle => x = ChomeByGrammar(s)

\* 弥生町３丁目１３番 -> 弥生町3丁目
C9_YayoiExample ==
  s = <<"ya", "yoi", "machi", "fw3", "chou", "me", "fw1", "fw3", "ban">>
    => x \in {Pending, <<"ya", "yoi", "machi", "3", "chou", "me">>}

\* 十十丁目 -> 10丁目
C9_MultiTenRewritten ==
  s = <<"k10", "k10", "chou", "me">> /\ x = <<"1", "0", "chou", "me">>

(***************************************************************************)
(* C10: boundary matching by equality or containment of normalized names.   *)
(***************************************************************************)
\* b occurs in a as a contiguous run of characters
IsSubstring(a, b) ==
  \E i \in 0..(Len(a) - Len(b)) : \A j \in 1..Len(b) : a[i + j] = b[j]

NamesMatch(a, b) == a = b \/ IsSubstring(a, b) \/ IsSubstring(b, a)

\* the name the level reads from the only source feature, and the level's
\* normalization
OnlyPolygonName ==
  IF matchPc = "city" THEN getCityName(boundaryData[1]) ELSE getTownName(boundaryData[1])
NormalizeAtLevel(name) ==
  IF matchPc = "city" THEN normalizeCityName(name) ELSE normalizeTownName(name)

\* one named polygon and one target, so nothing competes for the match
NoCompetition ==
  /\ matchPc \in {"city", "town"}
  /\ Len(boundaryData) = 1 /\ Len(areaCounts) = 1
  /\ Truthy(OnlyPolygonName)
  /\ IsPolygonal(boundaryData[1].geometry)

\* C10: with one named polygon and one target area, the matcher returns a
\* feature exactly when the normalized polygon name and the normalized
\* target key are equal or one contains the other; the feature then carries
\* the target key and the polygon's geometry.
C10_MatchByEqualityOrContainment ==
  NoCompetition =>
    LET matches == NamesMatch(NormalizeAtLevel(OnlyPolygonName),
                              NormalizeAtLevel(areaCounts[1].key))
    IN  /\ matches => /\ Len(matchedFeatures) = 1
                      /\ matchedFeatures[1].properties.matchedName = areaCounts[1].key
                      /\ matchedFeatures[1].geometry = boundaryData[1].geometry
        /\ ~matches => matchedFeatures = <<>>

\* the city-level target 東京都 中野 has been matched to the polygon 中野区
C10_TokyoNakanoMatchesNakanoKu ==
  /\ NoCompetition /\ matchPc = "city"
  /\ OnlyPolygonName = NakanoKu
  /\ areaCounts[1].key = TokyoNakano
  /\ Len(matchedFeatures) = 1
  /\ matchedFeatures[1].properties.name = NakanoKu

\* a polygon and a target whose normalized names do not match give no feature
C10_UnrelatedNamesGiveNothing ==
  /\ NoCompetition
  /\ OnlyPolygonName = NakanoKu
  /\ areaCounts[1].key = <<"oo", "saka">>
  /\ matchedFeatures = <<>>

(***************************************************************************)
(* C11 - C14: the geocoding batch.                                          *)
(***************************************************************************)
\* the events of one kind, in order
EventsOf(ev) == SelectSeq(eventLog, LAMBDA e : e.ev = ev)

\* whether the loop body has been entered
LoopRan == batchPc \notin {"idle", "call"} /\ loggedIn /\ Total > 0

LoopDone == batchPc = "done" /\ loggedIn

ClaimedDelayMs == IF batchKind = "batch" THEN 120 ELSE 150

\* the requests logged so far are those of coordinates 1, 2, ..., in order
RequestsInOrder ==
  LET reqs == EventsOf("request")
  IN  \A j \in 1..Len(reqs) : reqs[j].k = j

\* before request k > 1 was issued, request k - 1 had completed and after
\* that the timer of the claimed length had fired
DelayBeforeEachRequest ==
  \A j \in 1..Len(eventLog) :
    (eventLog[j].ev = "request" /\ eventLog[j].k > 1) =>
      \E c, d \in 1..(j - 1) :
        /\ c < d
        /\ eventLog[c].ev = "complete" /\ eventLog[c].k = eventLog[j].k - 1
        /\ eventLog[d].ev = "delay" /\ eventLog[d].k = ClaimedDelayMs

C12_ProgressAfterEachCompletion ==
  /\ LET prog == EventsOf("progress")
     IN  /\ \A j \in 1..Len(prog) : prog[j].k = j /\ prog[j].n = Total
         /\ LoopDone => Len(prog) = Total
  /\ \A j \in 1..Len(eventLog) :
       eventLog[j].ev = "progress" =>
         \E c \in 1..(j - 1) :
           eventLog[c].ev = "complete" /\ eventLog[c].k = eventLog[j].k

\* the part of C12 that batchReverseGeocode meets
C12_BatchProgressAfterCompletion ==
  batchKind = "batch" => C12_ProgressAfterEachCompletion

\* updateAddressInfo has reported (1, n) while its first request is still pending
C12_ProgressBeforeFirstRequest ==
  /\ batchKind = "update" /\ batchPc = "request" /\ batchI = 0
  /\ EventsOf("progress") # <<>>
  /\ EventsOf("complete") = <<>>

\* C13: once the caller has signalled cancellation no further request is
\* issued: no request event follows the cancel event.
C13_NoRequestAfterCancel ==
  \A c, j \in 1..Len(eventLog) :
    (eventLog[c].ev = "cancel" /\ eventLog[j].ev = "request") => j < c

\* a request was issued after the caller's cancellation
C13_RequestAfterCancel ==
  \E c, j \in 1..Len(eventLog) :
    eventLog[c].ev = "cancel" /\ eventLog[j].ev = "request" /\ c < j

\* C14: a failing geocode resolves to all-null, and batchReverseGeocode
\* resolves with one result per coordinate, result i that of coordinate i,
\* having issued every request, also those that follow a failed one.
C14_BatchSurvivesFailures ==
  (batchKind = "batch" /\ batchPc = "done") =>
    /\ Len(results) = Len(coords)
    /\ \A j \in 1..Len(coords) :
         /\ results[j] = reverseGeocode(coords[j].resp)
         /\ coords[j].resp.outcome \in FailedOutcomes =>
              results[j] = [prefecture |-> Null, city |-> Null, town |-> Null]
         /\ coords[j].resp = OkResponse(Tokyo) => results[j].prefecture = Tokyo
         /\ coords[j].resp = OkResponse(Osaka) => results[j].prefecture = Osaka
    /\ Len(EventsOf("request")) = Len(coords)

\* a batch whose first request failed and whose second succeeded has finished
C14_FailureThenSuccess ==
  /\ batchKind = "batch" /\ batchPc = "done"
  /\ Len(coords) >= 2
  /\ coords[1].resp.outcome \in FailedOutcomes
  /\ coords[2].resp.outcome = "ok"
  /\ results[1] = AllNull
  /\ results[2].prefecture = Tokyo

(***************************************************************************)
(* C15 - C17: the polygon caches.                                           *)
(***************************************************************************)
PendingFetches(level, code) ==
  {id \in 1..Len(fetches) :
     fetches[id].level = level /\ fetches[id].code = code /\ fetches[id].state = "pending"}

CacheKeys == {<<"prefecture", "japan">>} \cup ({"city", "town"} \X Codes)

\* C15: for every cache key at most one fetch is in flight at any time.
C15_OneFetchPerKey ==
  \A key \in CacheKeys : Cardinality(PendingFetches(key[1], key[2])) <= 1

\* the part of C15 the prefecture loader meets as long as the cache is not cleared
C15_OnePrefectureFetchUnlessCleared ==
  clears = 0 => Cardinality(PendingFetches("prefecture", "japan")) <= 1

\* a second load of the prefecture collection is waiting for the first one's fetch
C15_PrefectureLoadShared ==
  \E c \in 1..Len(calls) : calls[c].pc = "shared"

\* two fetches of the city polygons of 東京都 are in flight
C15_TwoCityFetchesInFlight == Cardinality(PendingFetches("city", "13")) = 2

\* C16: in a step that is not clearGeoDataCache a stored entry is neither
\* replaced nor removed, and a load of a stored key returns the entry without
\* starting a fetch for it; clearGeoDataCache empties the three caches.
C16_StoredEntryStable ==
  [][ /\ clears' = clears =>
           /\ prefectureGeoJSON # 0 => prefectureGeoJSON' = prefectureGeoJSON
           /\ \A code \in Codes :
                /\ cityGeoJSONCache[code] # 0 => cityGeoJSONCache'[code] = cityGeoJSONCache[code]
                /\ townGeoJSONCache[code] # 0 => townGeoJSONCache'[code] = townGeoJSONCache[code]
      /\ Len(calls') > Len(calls) =>
           LET call == calls'[Len(calls')]
               started == {fetches'[id] : id \in (Len(fetches) + 1)..Len(fetches')}
           IN  /\ (call.kind = "prefecture" /\ prefectureGeoJSON # 0) =>
                    /\ started = {}
                    /\ call.pc = "done" /\ call.result.data = prefectureGeoJSON
               /\ \A n \in 1..Len(call.names) :
                    LET code == getPrefectureCode(call.names[n])
                    IN  (call.kind \in {"city", "town"} /\ code # NoCode
                           /\ CacheOf(call.kind)[code] # 0) =>
                          /\ \A f \in started : f.code # code
                          /\ \A k \in 1..Len(FeaturesOf(CacheOf(call.kind)[code])) :
                               \E m \in 1..Len(call.features) :
                                 call.features[m] = FeaturesOf(CacheOf(call.kind)[code])[k]
      /\ clears' # clears =>
           /\ prefectureGeoJSON' = 0
           /\ cityGeoJSONCache' = EmptyCache /\ townGeoJSONCache' = EmptyCache
    ]_vars

\* the cached city polygons of 東京都 come from the second of two fetches
\* although the first one had succeeded too
C16_EntryReplaced ==
  \E a, b \in 1..Len(fetches) :
    /\ a < b
    /\ fetches[a].level = "city" /\ fetches[b].level = "city"
    /\ fetches[a].code = "13" /\ fetches[b].code = "13"
    /\ fetches[a].state = "ok" /\ fetches[b].state = "ok"
    /\ clears = 0

\* the ids in a sequence
Range(seq) == {seq[j] : j \in 1..Len(seq)}

\* C17: a fetch that fails changes no cache, and a finished city or town load
\* has resolved (not rejected) with exactly the features taken from the
\* cache and those of its own successful fetches, null exactly when there
\* are none.
C17_FailedFetchIsolated ==
  [][ /\ (\E id \in 1..Len(fetches) :
             fetches[id].state = "pending" /\ fetches'[id].state = "null") =>
           /\ cityGeoJSONCache' = cityGeoJSONCache
           /\ townGeoJSONCache' = townGeoJSONCache
           /\ prefectureGeoJSON' = 0 \/ prefectureGeoJSON' = prefectureGeoJSON
      /\ \A c \in 1..Len(calls') :
           (calls'[c].kind \in {"city", "town"} /\ calls'[c].pc = "done") =>
             /\ Range(calls'[c].result.features) =
                  Range(calls'[c].fromCache)
                    \cup {id \in 1..Len(fetches') :
                            fetches'[id].owner = c /\ fetches'[id].state = "ok"}
             /\ calls'[c].result.none <=> calls'[c].result.features = <<>>
             /\ \A id \in 1..Len(fetches') :
                  fetches'[id].owner = c => fetches'[id].state # "pending"
    ]_vars

\* a load of 東京都 and 大阪府 has resolved with the polygons of one of them
\* after the fetch for the other failed, and the failed code is not cached
C17_OneOfTwoFailed ==
  \E c \in 1..Len(calls) :
    /\ calls[c].kind = "city" /\ calls[c].pc = "done"
    /\ calls[c].names = <<Tokyo, Osaka>>
    /\ ~calls[c].result.none
    /\ Len(calls[c].result.features) = 1
    /\ \E id \in 1..Len(fetches) :
         /\ fetches[id].owner = c /\ fetches[id].state = "null"
         /\ cityGeoJSONCache[fetches[id].code] = 0

(***************************************************************************)
(* C18: the suffix-stripping normalizers.                                   *)
(***************************************************************************)
SuffixesAtLevel ==
  IF normPc = "prefecture" THEN {"to", "dou", "fu", "ken"}
  ELSE {"shi", "ku", "machi", "mura", "gun"}

\* the name without its last character when that is a suffix of the level,
\* and else the name itself
WithoutOneSuffix(name) ==
  IF name # <<>> /\ name[Len(name)] \in SuffixesAtLevel
  THEN SubSeq(name, 1, Len(name) - 1)
  ELSE name

\* C18: a normalizer removes exactly the last character of a name that ends
\* with a suffix of its level, and returns every other name unchanged.
C18_StripsExactlyOneSuffix ==
  normPc \in {"prefecture", "city"} => normalizedName = WithoutOneSuffix(rawName)

\* What the code does hold to for a name without spaces whose last but one
\* character is no suffix of the level.
C18_OneSuffixWhenNoneBefore ==
  (/\ normPc \in {"prefecture", "city"}
   /\ \A j \in 1..Len(rawName) : rawName[j] # "sp"
   /\ Len(rawName) >= 2 => rawName[Len(rawName) - 1] \notin SuffixesAtLevel)
    => normalizedName = WithoutOneSuffix(rawName)

\* normalizeCityName(大町市) has returned 大
C18_TwoSuffixesStripped ==
  /\ normPc = "city"
  /\ rawName = <<"oo", "machi", "shi">>
  /\ normalizedName = <<"oo">>

(***************************************************************************)
(* C19, C20: the fields and the feature pass of reverseGeocode.             *)
(***************************************************************************)
\* C19: every field of the address returned is null or a non-empty string.
C19_FieldsNullOrNonEmpty ==
  geoPc = "return" =>
    /\ address.prefecture # <<>>
    /\ address.city # <<>>
    /\ address.town # <<>>

\* an empty locality name has come back as the city
C19_EmptyCity ==
  /\ geoPc = "return"
  /\ response.features = <<Feature("locality", <<>>)>>
  /\ address.city = <<>>

\* the name of the first feature of a category, null when there is none
FirstSeen(features, category) ==
  LET hits == {j \in 1..Len(features) : features[j].place_type = category}
  IN  IF hits = {} THEN Null
      ELSE features[CHOOSE j \in hits : \A k \in hits : j <= k].text

FirstSeenNames(features) ==
  [region |-> FirstSeen(features, "region"), district |-> FirstSeen(features, "district"),
   place |-> FirstSeen(features, "place"), locality |-> FirstSeen(features, "locality"),
   neighborhood |-> FirstSeen(features, "neighborhood"),
   address |-> FirstSeen(features, "address")]

\* C20: the address returned is the one the classification gives for the
\* first-seen name of every category (completed from the context chain).
C20_FirstFeatureOfCategoryUsed ==
  (geoPc = "return" /\ response.outcome = "ok" /\ response.features # <<>>) =>
    LET n == BackFill(FirstSeenNames(response.features), response.context,
                      Len(response.context))
        chome == IF Present(n.address) THEN normalizeChome(n.address) ELSE Null
    IN  /\ address.prefecture = n.region
        /\ address.city = RuleCity(n)
        /\ address.town = (IF Present(RuleTown(n, chome)) /\ RuleTown(n, chome) = RuleCity(n)
                           THEN Null ELSE RuleTown(n, chome))

\* two localities, 中野区 then 弥生町: the city returned is the later one
C20_LastLocalityUsed ==
  /\ geoPc = "return"
  /\ response.features = <<Feature("locality", Nakano), Feature("locality", Yayoi)>>
  /\ response.context = <<>>
  /\ address.city = Yayoi

(***************************************************************************)
(* C21: the composite keys of buildAdminBoundaryStats.                     *)
(***************************************************************************)
\* the observation carries the parent and the child field of the level
CarriesBoth(photo, level) ==
  IF level = "city" THEN Present(photo.prefecture) /\ Present(photo.city)
  ELSE Present(photo.city) /\ Present(photo.town)

\* the two observations denote one area of the level: the same city of the
\* same prefecture, or the same town of the same city of the same prefecture
SameArea(p, q, level) ==
  /\ p.prefecture = q.prefecture
  /\ p.city = q.city
  /\ level = "town" => p.town = q.town

\* C21: at city and town level two observations that both carry the parent and
\* the child field are in one cell only if they denote the same area.
C21_CellSharedOnlyBySameArea ==
  (adminPc = "return" /\ adminStats.level \in {"city", "town"}) =>
    \A j \in 1..Len(adminStats.cells) :
      \A a, b \in 1..Len(adminStats.cells[j].photos) :
        LET p == adminStats.cells[j].photos[a]
            q == adminStats.cells[j].photos[b]
        IN  (CarriesBoth(p, adminStats.level) /\ CarriesBoth(q, adminStats.level))
              => SameArea(p, q, adminStats.level)

\* What the code does hold to: at city level the key carries the prefecture.
C21_CityCellSharedOnlyBySameArea ==
  (adminPc = "return" /\ adminStats.level = "city") =>
    \A j \in 1..Len(adminStats.cells) :
      \A a, b \in 1..Len(adminStats.cells[j].photos) :
        LET p == adminStats.cells[j].photos[a]
            q == adminStats.cells[j].photos[b]
        IN  (CarriesBoth(p, "city") /\ CarriesBoth(q, "city")) => SameArea(p, q, "city")

\* 弥生町 of 中野区 in 東京都 and 弥生町 of 中野区 in 大阪府 are one town-level cell
C21_SameNamedCitiesShareTownCell ==
  /\ adminPc = "return" /\ adminStats.level = "town" /\ Len(photos) = 2
  /\ photos[1].prefecture = Tokyo /\ photos[2].prefecture = Osaka
  /\ photos[1].city = Nakano /\ photos[2].city = Nakano
  /\ photos[1].town = Yayoi /\ photos[2].town = Yayoi
  /\ Len(adminStats.cells) = 1 /\ adminStats.cells[1].count = 2

\* the same city name under two prefectures: two city-level cells
C21_SameCityNameTwoPrefectures ==
  /\ adminPc = "return" /\ adminStats.level = "city" /\ Len(photos) = 2
  /\ photos[1].prefecture = Tokyo /\ photos[2].prefecture = Osaka
  /\ photos[1].city = Nakano /\ photos[2].city = Nakano
  /\ Len(adminStats.cells) = 2

(***************************************************************************)
(* C22, C23: the grid of buildPhotoGrid.                                    *)
(***************************************************************************)
\* value - origin is a whole number of cells, as the doubles have it
OnBoundary(value, origin, cellSize) ==
  ~origin.up /\ (value - origin.v) % cellSize = 0

\* C22: after the padding no observation lies on a cell boundary, neither in
\* latitude nor in longitude, the observations at the minimum included.
C22_NoObservationOnBoundary ==
  (gridPc = "return" /\ photos # <<>>) =>
    \A i \in 1..Len(photos) :
      /\ ~OnBoundary(photos[i].latitude, gridOrigin.originLat, gridOrigin.cellSizeLat)
      /\ ~OnBoundary(photos[i].longitude, gridOrigin.originLng, gridOrigin.cellSizeLng)

\* a single observation, no rounding in the origin: it is exactly one cell from
\* the origin both ways, on the corner of four cells, and put in cell 1:1
C22_MinimumOnBoundary ==
  /\ gridPc = "return" /\ Len(photos) = 1
  /\ ~gridOrigin.originLat.up /\ ~gridOrigin.originLng.up
  /\ photos[1].latitude - gridOrigin.originLat.v = gridOrigin.cellSizeLat
  /\ photos[1].longitude - gridOrigin.originLng.v = gridOrigin.cellSizeLng
  /\ gridStats.cells[1].id = <<"1", ":", "1">>

\* the cell is the one of the floored quotients and holds the observation
HoldsAt(cell, photo) ==
  /\ \E a \in 1..Len(cell.photos) : cell.photos[a] = photo
  /\ cell.row = FloorFromOrigin(photo.latitude, gridOrigin.originLat, gridOrigin.cellSizeLat)
  /\ cell.col = FloorFromOrigin(photo.longitude, gridOrigin.originLng, gridOrigin.cellSizeLng)

InsideBounds(cell, photo) ==
  /\ cell.bounds.minLat <= photo.latitude /\ photo.latitude < cell.bounds.maxLat
  /\ cell.bounds.minLng <= photo.longitude /\ photo.longitude < cell.bounds.maxLng

InsideClosedBounds(cell, photo) ==
  /\ cell.bounds.minLat <= photo.latitude /\ photo.latitude <= cell.bounds.maxLat
  /\ cell.bounds.minLng <= photo.longitude /\ photo.longitude <= cell.bounds.maxLng

\* distinct ids, one cell size, bounds that do not overlap
CellsTile(cells) ==
  /\ \A i, j \in 1..Len(cells) : cells[i].id = cells[j].id => i = j
  /\ \A i, j \in 1..Len(cells) :
       /\ cells[i].bounds.maxLat - cells[i].bounds.minLat
            = cells[j].bounds.maxLat - cells[j].bounds.minLat
       /\ cells[i].bounds.maxLng - cells[i].bounds.minLng
            = cells[j].bounds.maxLng - cells[j].bounds.minLng
  /\ \A i, j \in 1..Len(cells) :
       i # j =>
         \/ cells[i].bounds.maxLat <= cells[j].bounds.minLat
         \/ cells[j].bounds.maxLat <= cells[i].bounds.minLat
         \/ cells[i].bounds.maxLng <= cells[j].bounds.minLng
         \/ cells[j].bounds.maxLng <= cells[i].bounds.minLng

\* C23: every observation is in the cell of its floored row and column and inside
\* that cell's bounds (minimum included, maximum excluded); the cell ids are
\* pairwise distinct, the cells have one height and one width, and the bounds of
\* distinct cells do not overlap.
C23_ObservationInsideItsCell ==
  (gridPc = "return" /\ photos # <<>>) =>
    /\ \A i \in 1..Len(photos) :
         \E j \in 1..Len(gridStats.cells) :
           /\ HoldsAt(gridStats.cells[j], photos[i])
           /\ InsideBounds(gridStats.cells[j], photos[i])
    /\ CellsTile(gridStats.cells)

\* What the code does hold to: the observation is in the cell of its floored row
\* and column and within its bounds, the maximum included.
C23_ObservationWithinClosedCell ==
  (gridPc = "return" /\ photos # <<>>) =>
    /\ \A i \in 1..Len(photos) :
         \E j \in 1..Len(gridStats.cells) :
           /\ HoldsAt(gridStats.cells[j], photos[i])
           /\ InsideClosedBounds(gridStats.cells[j], photos[i])
    /\ CellsTile(gridStats.cells)

\* a single observation whose origin latitude has rounded up: it is put in row 0,
\* whose upper bound is the observation's own latitude
C23_MinimumAtUpperBound ==
  /\ gridPc = "return" /\ Len(photos) = 1
  /\ gridOrigin.originLat.up
  /\ gridStats.cells[1].row = 0
  /\ gridStats.cells[1].bounds.maxLat = photos[1].latitude

\* three observations in three cells of one grid
C23_ThreeCells ==
  /\ gridPc = "return" /\ Len(photos) = 3 /\ Len(gridStats.cells) = 3

(***************************************************************************)
(* C24 - C26: what the boundary matchers emit.                              *)
(***************************************************************************)
\* the name the level just run reads from a source feature, and its normalization
LevelName(feature) ==
  IF matchPc = "prefecture" THEN getPrefectureName(feature)
  ELSE IF matchPc = "city" THEN getCityName(feature)
  ELSE getTownName(feature)

LevelNormalize(name) ==
  IF matchPc = "prefecture" THEN normalizePrefectureName(name)
  ELSE IF matchPc = "city" THEN normalizeCityName(name)
  ELSE normalizeTownName(name)

\* the source polygons whose name matches the target: indices into boundaryData
MatchingPolygons(target) ==
  {n \in 1..Len(boundaryData) :
     /\ Truthy(LevelName(boundaryData[n]))
     /\ IsPolygonal(boundaryData[n].geometry)
     /\ NamesMatch(LevelNormalize(LevelName(boundaryData[n])), LevelNormalize(target.key))}

\* the features emitted for the target: indices into matchedFeatures
EmittedFor(target) ==
  {e \in 1..Len(matchedFeatures) :
     IF matchPc = "prefecture"
     THEN /\ matchedFeatures[e].properties.count = target.count
          /\ matchedFeatures[e].properties.intensity = target.intensity
          /\ NamesMatch(normalizePrefectureName(SubSeq(matchedFeatures[e].properties.name, 1, 3)),
                        normalizePrefectureName(target.key))
     ELSE matchedFeatures[e].properties.matchedName = target.key}

\* the centroid hint of the target, NullObject when there is none
HintFor(target) == IF matchPc = "town" THEN CenterOf(centerHints, target.key) ELSE NullObject

HintDistance(target, n) == distanceSq(HintFor(target), centroidOfGeometry(boundaryData[n].geometry))

\* the polygon the target is to get: the nearest to the hint, the first of the
\* nearest; without a hint the first
ChosenPolygon(target) ==
  IF IsNullObject(HintFor(target)) THEN MinOf(MatchingPolygons(target))
  ELSE MinOf({n \in MatchingPolygons(target) :
                \A m \in MatchingPolygons(target) :
                  ~FracLess(HintDistance(target, m), HintDistance(target, n))})

EmitsChosenPolygon(target) ==
  /\ Cardinality(EmittedFor(target)) <= 1
  /\ \A e \in EmittedFor(target) :
       /\ MatchingPolygons(target) # {}
       /\ matchedFeatures[e].geometry = boundaryData[ChosenPolygon(target)].geometry

\* C24: for each target area the matcher emits at most one polygon: with a
\* centroid hint the name-matching polygon whose coordinate-mean centroid is
\* nearest to the hint (the first encountered on ties), and without a hint the
\* first name-matching polygon in feature order.
C24_OneNearestOrFirstPolygonPerTarget ==
  matchPc \in {"prefecture", "city", "town"} =>
    \A i \in 1..Len(areaCounts) : EmitsChosenPolygon(areaCounts[i])

\* What the code does hold to: createTownFeatures does so.
C24_TownNearestOrFirstPolygon ==
  matchPc = "town" =>
    \A i \in 1..Len(areaCounts) :
      /\ EmitsChosenPolygon(areaCounts[i])
      /\ MatchingPolygons(areaCounts[i]) # {} => EmittedFor(areaCounts[i]) # {}

\* two polygons named 中野区 and the targets 東京都 中野 and 中野区: the second
\* target gets the second polygon, the first one having gone to the first target
C24_SecondTargetGetsLaterPolygon ==
  /\ matchPc = "city" /\ Len(boundaryData) = 2 /\ Len(areaCounts) = 2
  /\ MatchingPolygons(areaCounts[2]) = {1, 2}
  /\ boundaryData[1].geometry # boundaryData[2].geometry
  /\ \E e \in EmittedFor(areaCounts[2]) :
       matchedFeatures[e].geometry = boundaryData[2].geometry

\* two polygons of 大阪府 and one target: two features for the target
C24_TwoFeaturesForOnePrefecture ==
  /\ matchPc = "prefecture" /\ Len(areaCounts) = 1
  /\ areaCounts[1].key = <<"oo", "saka", "fu">>
  /\ Len(matchedFeatures) = 2

\* a town target with a hint and two matching polygons at different distances
\* has got the later, nearer one
C24_NearerLaterPolygonTaken ==
  /\ matchPc = "town" /\ Len(areaCounts) = 1 /\ ~IsNullObject(HintFor(areaCounts[1]))
  /\ MatchingPolygons(areaCounts[1]) = {1, 2}
  /\ FracLess(HintDistance(areaCounts[1], 2), HintDistance(areaCounts[1], 1))
  /\ Len(matchedFeatures) = 1
  /\ matchedFeatures[1].geometry = boundaryData[2].geometry

\* every emitted feature carries name, matched key, count and intensity, the count
\* and intensity being those of the target the matched key names
CarriesTarget(feature) ==
  /\ {"name", "matchedName", "count", "intensity"} \subseteq DOMAIN feature.properties
  /\ \E i \in 1..Len(areaCounts) :
       /\ areaCounts[i].key = feature.properties.matchedName
       /\ areaCounts[i].count = feature.properties.count
       /\ areaCounts[i].intensity = feature.properties.intensity

EmittedCarryTargets ==
  /\ \A e \in 1..Len(matchedFeatures) : CarriesTarget(matchedFeatures[e])
  /\ \A i \in 1..Len(areaCounts) :
       MatchingPolygons(areaCounts[i]) = {} =>
         \A e \in 1..Len(matchedFeatures) :
           matchedFeatures[e].properties.matchedName # areaCounts[i].key

\* C25: every feature returned by createPrefectureFeatures, createCityFeatures and
\* createTownFeatures carries name, matched key, count and intensity of its target;
\* a target with no matching polygon produces no feature, and the source feature
\* collection is left as it was.
C25_FeaturesCarryTargetData ==
  /\ [](matchPc \in {"prefecture", "city", "town"} => EmittedCarryTargets)
  /\ [][boundaryData' = boundaryData]_vars

\* What the code does hold to: the city and the town matcher do so.
C25_CityTownFeaturesCarryTargetData ==
  /\ [](matchPc \in {"city", "town"} => EmittedCarryTargets)
  /\ [][boundaryData' = boundaryData]_vars

\* a prefecture feature has been emitted: it has name, count and intensity and no
\* matched key
C25_PrefectureFeatureWithoutKey ==
  /\ matchPc = "prefecture" /\ Len(matchedFeatures) = 1
  /\ DOMAIN matchedFeatures[1].properties = {"name", "count", "intensity"}

\* two targets, one matched and one with no matching polygon
C25_OneTargetOmitted ==
  /\ matchPc = "city" /\ Len(areaCounts) = 2 /\ Len(matchedFeatures) = 1
  /\ MatchingPolygons(areaCounts[1]) = {}
  /\ MatchingPolygons(areaCounts[2]) # {}

\* the polygons of a coordinate list that are on the side asked for
PolygonsOnSide(coordinates, islands) ==
  SelectSeq(coordinates,
            LAMBDA polygon :
              (\/ 2 * SumCoord(polygon[1], 1) > 281 * Len(polygon[1])
               \/ SumCoord(polygon[1], 2) < 35 * Len(polygon[1])) = islands)

\* the emitted features of the given name
FeaturesNamed(name) ==
  SelectSeq(matchedFeatures, LAMBDA f : f.properties.name = name)

\* one source polygon named 東京都 with a MultiPolygon geometry, and a target it matches
TokyoSplitCase ==
  /\ matchPc = "prefecture" /\ Len(boundaryData) = 1 /\ Len(areaCounts) >= 1
  /\ getPrefectureName(boundaryData[1]) = Tokyo
  /\ boundaryData[1].geometry.type = "MultiPolygon"
  /\ \E i \in 1..Len(areaCounts) : MatchingPolygons(areaCounts[i]) # {}

\* C26: a matched 東京都 MultiPolygon goes to two features: every polygon whose outer
\* ring has a mean longitude above 140.5 or a mean latitude below 35.0 to 東京都（諸島部）,
\* every other to 東京都, in source order; both carry the count and intensity of the
\* matched target, and a side with no polygon gives no feature.
C26_TokyoSplitIntoMainlandAndIslands ==
  TokyoSplitCase =>
    LET target == areaCounts[MinOf({i \in 1..Len(areaCounts) :
                                      MatchingPolygons(areaCounts[i]) # {}})]
        mainland == PolygonsOnSide(boundaryData[1].geometry.coordinates, FALSE)
        islands == PolygonsOnSide(boundaryData[1].geometry.coordinates, TRUE)
    IN  /\ Len(FeaturesNamed(Tokyo)) = (IF mainland = <<>> THEN 0 ELSE 1)
        /\ Len(FeaturesNamed(TokyoIslands)) = (IF islands = <<>> THEN 0 ELSE 1)
        /\ Len(matchedFeatures) = Len(FeaturesNamed(Tokyo)) + Len(FeaturesNamed(TokyoIslands))
        /\ \A f \in Range(FeaturesNamed(Tokyo)) : f.geometry.coordinates = mainland
        /\ \A f \in Range(FeaturesNamed(TokyoIslands)) : f.geometry.coordinates = islands
        /\ \A f \in Range(matchedFeatures) :
             /\ f.geometry.type = "MultiPolygon"
             /\ f.properties.count = target.count
             /\ f.properties.intensity = target.intensity

\* the mainland and 伊豆大島 have gone to one feature each, with the same count
C26_MainlandAndIslandFeatures ==
  /\ TokyoSplitCase
  /\ boundaryData[1].geometry.coordinates = <<TokyoMainland, IzuOshima>>
  /\ Len(matchedFeatures) = 2
  /\ matchedFeatures[1].properties.name = Tokyo
  /\ matchedFeatures[1].geometry.coordinates = <<TokyoMainland>>
  /\ matchedFeatures[2].properties.name = TokyoIslands
  /\ matchedFeatures[2].geometry.coordinates = <<IzuOshima>>
  /\ matchedFeatures[1].properties.count = matchedFeatures[2].properties.count

\* only island polygons: no mainland feature
C26_IslandsOnly ==
  /\ TokyoSplitCase
  /\ boundaryData[1].geometry.coordinates = <<IzuOshima, Ogasawara>>
  /\ Len(matchedFeatures) = 1
  /\ matchedFeatures[1].properties.name = TokyoIslands

\* a ring whose means are exactly 140.5 and 35.0 is mainland
C26_OnTheLineIsMainland ==
  /\ TokyoSplitCase
  /\ boundaryData[1].geometry.coordinates = <<Ogasawara, OnTheLine>>
  /\ Len(matchedFeatures) = 2
  /\ matchedFeatures[1].geometry.coordinates = <<OnTheLine>>

(***************************************************************************)
(* C27: clearGeoDataCache and the prefecture loader.                        *)
(***************************************************************************)
\* isGeoDataLoaded()
isGeoDataLoaded == prefectureGeoJSON # 0

\* the prefecture fetches in flight that were started after the latest clear
FreshPrefectureFetches ==
  {id \in PendingFetches("prefecture", "japan") : fetches[id].clearsBefore = clears}

\* C27: once the cache has been cleared, the prefecture collection is loaded only
\* with the data of a fetch started after the latest clear, and the loads issued
\* after the clear have at most one fetch in flight.
C27_ClearedUntilFreshLoad ==
  clears >= 1 =>
    /\ isGeoDataLoaded => fetches[prefectureGeoJSON].clearsBefore = clears
    /\ Cardinality(FreshPrefectureFetches) <= 1

\* What the code does hold to: right after the clear the collection is not loaded.
C27_EmptyRightAfterClear ==
  [][clears' # clears => prefectureGeoJSON' = 0]_vars

\* the cache has been cleared, no load has been issued since, and the collection
\* is loaded with the data of the fetch that was in flight at the clear
C27_StaleFetchRepopulates ==
  /\ clears = 1 /\ isGeoDataLoaded
  /\ fetches[prefectureGeoJSON].clearsBefore = 0
  /\ Len(calls) = 1

(***************************************************************************)
(* C28: the resolver's normalizeChome and the matcher's normalizeTownName.  *)
(***************************************************************************)
\* C28: normalizeChome and normalizeTownName return the same string for every
\* input, and normalizing what they return changes nothing.
C28_NormalizersAgreeAndAreIdempotent ==
  x \notin {Idle, Pending} =>
    /\ x = normalizeChome(s)
    /\ x = normalizeTownName(s)
    /\ normalizeChome(x) = x
    /\ normalizeTownName(x) = x

\* 十丁目番 has been normalized to 10丁目: the numeral converted, the rest cut
C28_ConvertedAndCut ==
  /\ s = <<"k10", "chou", "me", "ban">>
  /\ x = <<"1", "0", "chou", "me">>

(***************************************************************************)
(* exifParser.ts: parseMultiplePhotos (lines 116-152).  JavaScript runs a   *)
(* callback to its next await without interruption, so one action is one    *)
(* such stretch: the call up to await Promise.all (every worker started     *)
(* and run to its first await), a worker from the completion of its parse   *)
(* to its next await or return, a worker from the end of its yield to its   *)
(* next await or return, and the resolution of Promise.all.  parsePhotoEXIF *)
(* catches every error and resolves with a photo or with null; files[i]     *)
(* says which ("gps" or "none").  The signal is aborted by the caller at    *)
(* any time between two stretches.                                          *)
(***************************************************************************)
MaxFiles == 3

\* the number of workers without the cap of 8
ConcurrencyUncapped(options) ==
  IF options.concurrency = 0 THEN 2
  ELSE IF options.concurrency > 1 THEN options.concurrency ELSE 1

\* Math.max(1, Math.min(options.concurrency ?? 2, 8)); 0 stands for an absent option
Concurrency(options) ==
  LET given == IF options.concurrency = 0 THEN 2 ELSE options.concurrency
      capped == IF given < 8 THEN given ELSE 8
  IN  IF capped > 1 THEN capped ELSE 1

\* Math.max(1, options.yieldEvery ?? 5); 0 stands for an absent option
YieldEvery(options) ==
  LET given == IF options.yieldEvery = 0 THEN 5 ELSE options.yieldEvery
  IN  IF given > 1 THEN given ELSE 1

ParseEvent(ev, w, k) == [ev |-> ev, w |-> w, k |-> k]

\* what parsePhotoEXIF resolves with for file k (from 0): the photo of the file, or null
parsePhotoEXIF(k) == IF files[k + 1] = "gps" THEN k + 1 ELSE 0

\* the loop top without the test of the signal on line 135
LoopTopIgnoringAbort(w, i, isAborted) ==
  IF i >= Len(files)
  THEN [worker |-> [pc |-> "done", current |-> -1], index |-> i + 1, log |-> <<>>]
  ELSE [worker |-> [pc |-> "parsing", current |-> i], index |-> i + 1,
        log |-> <<ParseEvent("claim", w, i)>>]

\* Lines 134-139: worker w at the top of its loop, index being i: its new
\* [pc, current], the new index and what it logs
LoopTop(w, i, isAborted) ==
  IF isAborted
  THEN [worker |-> [pc |-> "done", current |-> -1], index |-> i, log |-> <<>>]
  ELSE IF i >= Len(files)
  THEN [worker |-> [pc |-> "done", current |-> -1], index |-> i + 1, log |-> <<>>]
  ELSE [worker |-> [pc |-> "parsing", current |-> i], index |-> i + 1,
        log |-> <<ParseEvent("claim", w, i)>>]

\* Line 149: the workers started one after the other, each run to its first await
RECURSIVE StartWorkers(_, _)
StartWorkers(n, isAborted) ==
  IF n = 0 THEN [workers |-> <<>>, index |-> 0, log |-> <<>>]
  ELSE LET before == StartWorkers(n - 1, isAborted)
           top == LoopTop(n, before.index, isAborted)
       IN  [workers |-> Append(before.workers, top.worker), index |-> top.index,
            log |-> before.log \o top.log]

\* array.filter(r => r != null)
NonNull(array) == SelectSeq(array, LAMBDA r : r > 0)

FileLists == SeqsUpTo({"gps", "none"}, MaxFiles)
OptionChoices == [concurrency : {0, 1, 3, 9}, yieldEvery : {0, 1, 2}]

InitParse ==
  /\ files \in FileLists
  /\ parseOptions \in OptionChoices
  /\ parsePc = "call"
  /\ aborted = FALSE /\ processed = 0 /\ index = 0 /\ parseResults = <<>>
  /\ workers = <<>> /\ parseLog = <<>> /\ returnedPhotos = <<>>
  /\ kanjiIdle /\ chomeIdle /\ aggIdle /\ geoIdle /\ matchIdle /\ batchIdle /\ cacheIdle
  /\ normIdle

\* Lines 120-149, up to await Promise.all
ParseMultiplePhotos ==
  /\ parsePc = "call"
  /\ IF Len(files) = 0
     THEN /\ parsePc' = "returned"
          /\ returnedPhotos' = <<>>
          /\ UNCHANGED <<processed, index, parseResults, workers, parseLog>>
     ELSE LET started == StartWorkers(Concurrency(parseOptions), aborted)
          IN  /\ parsePc' = "running"
              /\ processed' = 0
              /\ parseLog' = parseLog \o <<ParseEvent("progress", 0, 0)>> \o started.log
              /\ parseResults' = [k \in 1..Len(files) |-> -1]
              /\ index' = started.index
              /\ workers' = started.workers
              /\ UNCHANGED returnedPhotos
  /\ UNCHANGED <<files, parseOptions, aborted>>
  /\ UNCHANGED <<kanjiVars, chomeVars, aggVars, geoVars, matchVars, batchVars, cacheVars, normVars>>

\* Lines 139-146 and back to 134-139: the parse worker w awaits completes
ParseCompletes(w) ==
  /\ parsePc = "running" /\ workers[w].pc = "parsing"
  /\ LET current == workers[w].current
         top == LoopTop(w, index, aborted)
         yields == (processed + 1) % YieldEvery(parseOptions) = 0
     IN  /\ parseResults' = [parseResults EXCEPT ![current + 1] = parsePhotoEXIF(current)]
         /\ processed' = processed + 1
         /\ workers' = [workers EXCEPT ![w] = IF yields THEN [pc |-> "yield", current |-> -1]
                                                         ELSE top.worker]
         /\ index' = IF yields THEN index ELSE top.index
         /\ parseLog' = parseLog
                          \o <<ParseEvent("complete", w, current),
                               ParseEvent("progress", w, processed + 1)>>
                          \o (IF yields THEN <<>> ELSE top.log)
  /\ UNCHANGED <<files, parseOptions, parsePc, aborted, returnedPhotos>>
  /\ UNCHANGED <<kanjiVars, chomeVars, aggVars, geoVars, matchVars, batchVars, cacheVars, normVars>>

\* Lines 144 and 134-139: the timer of yieldToMainThread fires for worker w
YieldEnds(w) ==
  /\ parsePc = "running" /\ workers[w].pc = "yield"
  /\ LET top == LoopTop(w, index, aborted)
     IN  /\ workers' = [workers EXCEPT ![w] = top.worker]
         /\ index' = top.index
         /\ parseLog' = parseLog \o top.log
  /\ UNCHANGED <<files, parseOptions, parsePc, aborted, processed, parseResults, returnedPhotos>>
  /\ UNCHANGED <<kanjiVars, chomeVars, aggVars, geoVars, matchVars, batchVars, cacheVars, normVars>>

\* Lines 149-151: every worker has returned
ParseReturns ==
  /\ parsePc = "running"
  /\ \A w \in 1..Len(workers) : workers[w].pc = "done"
  /\ parsePc' = "returned"
  /\ returnedPhotos' = NonNull(parseResults)
  /\ UNCHANGED <<files, parseOptions, aborted, processed, index, parseResults, workers, parseLog>>
  /\ UNCHANGED <<kanjiVars, chomeVars, aggVars, geoVars, matchVars, batchVars, cacheVars, normVars>>

\* the caller aborts the signal it passed
AbortSignal ==
  /\ parsePc \in {"call", "running"} /\ ~aborted
  /\ aborted' = TRUE
  /\ parseLog' = Append(parseLog, ParseEvent("abort", 0, 0))
  /\ UNCHANGED <<files, parseOptions, parsePc, processed, index, parseResults, workers,
                 returnedPhotos>>
  /\ UNCHANGED <<kanjiVars, chomeVars, aggVars, geoVars, matchVars, batchVars, cacheVars, normVars>>

NextParse ==
  \/ ParseMultiplePhotos
  \/ \E w \in 1..Len(workers) : ParseCompletes(w)
  \/ \E w \in 1..Len(workers) : YieldEnds(w)
  \/ ParseReturns
  \/ AbortSignal
SpecParse == InitParse /\ [][NextParse]_vars

\* every read settles, every timer fires and a resolved promise is continued
SpecParseFair ==
  /\ SpecParse
  /\ WF_vars(\E w \in 1..Len(workers) : ParseCompletes(w))
  /\ WF_vars(\E w \in 1..Len(workers) : YieldEnds(w))
  /\ WF_vars(ParseReturns)

(***************************************************************************)
(* What the log of a call shows                                            *)
(***************************************************************************)
LogPositions(ev, k) == {n \in 1..Len(parseLog) : parseLog[n].ev = ev /\ parseLog[n].k = k}
ProgressValues ==
  LET reports == SelectSeq(parseLog, LAMBDA e : e.ev = "progress")
  IN  [n \in 1..Len(reports) |-> reports[n].k]
CountingFromZero(values) == \A n \in 1..Len(values) : values[n] = n - 1
\* the photos of the files in `done`, in the order of the files
RECURSIVE PhotosInFileOrder(_, _)
PhotosInFileOrder(done, upTo) ==
  IF upTo = 0 THEN <<>>
  ELSE IF upTo \in done /\ files[upTo] = "gps"
       THEN Append(PhotosInFileOrder(done, upTo - 1), upTo)
       ELSE PhotosInFileOrder(done, upTo - 1)
\* index k (from 0) is claimed once and, when parsed, parsed once by its claimant after the claim
ClaimedAndParsedOnce(k) ==
  /\ Cardinality(LogPositions("claim", k)) <= 1
  /\ Cardinality(LogPositions("complete", k)) <= 1
  /\ \A c \in LogPositions("complete", k) :
       \E n \in LogPositions("claim", k) : n < c /\ parseLog[n].w = parseLog[c].w
WorkersAsClamped ==
  /\ Len(workers) \in 1..8
  /\ parseOptions.concurrency \in 1..8 => Len(workers) = parseOptions.concurrency
  /\ parseOptions.concurrency > 8 => Len(workers) = 8
UnabortedCall(reportsZeroWhenEmpty) ==
  (~aborted /\ parsePc # "call") =>
    /\ Len(files) > 0 => WorkersAsClamped
    /\ \A k \in 0..(Len(files) - 1) : ClaimedAndParsedOnce(k)
    /\ \A n \in 1..Len(parseLog) : parseLog[n].ev \in {"claim", "complete"} =>
         parseLog[n].k \in 0..(Len(files) - 1)
    /\ CountingFromZero(ProgressValues)
    /\ (Len(files) > 0 \/ reportsZeroWhenEmpty) => Len(ProgressValues) = processed + 1
    /\ processed = Cardinality({k \in 0..(Len(files) - 1) : LogPositions("complete", k) # {}})
    /\ parsePc = "returned" =>
         /\ \A k \in 0..(Len(files) - 1) :
              LogPositions("claim", k) # {} /\ LogPositions("complete", k) # {}
         /\ processed = Len(files)
         /\ returnedPhotos = PhotosInFileOrder(1..Len(files), Len(files))

C29_EmptyCallReportsNothing ==
  parsePc = "returned" /\ Len(files) = 0 /\ ~aborted /\ ProgressValues = <<>>

AbortPositions == {n \in 1..Len(parseLog) : parseLog[n].ev = "abort"}
AfterAbort(n) == \E a \in AbortPositions : a < n
EventsAfterAbort(ev) == {n \in 1..Len(parseLog) : parseLog[n].ev = ev /\ AfterAbort(n)}
CompletedFiles == {k + 1 : k \in {j \in 0..(Len(files) - 1) : LogPositions("complete", j) # {}}}
\* every completed parse is counted and reported at once
CountedAndReported ==
  /\ processed = Cardinality({n \in 1..Len(parseLog) : parseLog[n].ev = "complete"})
  /\ \A n \in 1..Len(parseLog) : parseLog[n].ev = "complete" =>
       /\ n < Len(parseLog)
       /\ parseLog[n + 1].ev = "progress" /\ parseLog[n + 1].w = parseLog[n].w
       /\ parseLog[n + 1].k = Cardinality({c \in 1..n : parseLog[c].ev = "complete"})
AbortedCall ==
  /\ EventsAfterAbort("claim") = {}
  /\ Cardinality(EventsAfterAbort("complete")) <= Len(workers)
  /\ CountedAndReported
  /\ (aborted /\ parsePc = "returned") =>
       /\ \A k \in 0..(Len(files) - 1) :
            LogPositions("claim", k) # {} => LogPositions("complete", k) # {}
       /\ returnedPhotos = PhotosInFileOrder(CompletedFiles, Len(files))

\* C30: after the signal is aborted no worker claims a file; the parses in
\* flight complete and are counted and reported, at most one per worker; the
\* call then returns the photos parsed so far in the order of the files.
C30_AbortStopsClaimsAndCallReturns ==
  /\ [](AbortedCall)
  /\ (aborted /\ parsePc = "running") ~> (parsePc = "returned")

\* an aborted call has returned a photo, one parse completed after the abort
\* and one file was never claimed
C30_AbortedWithParseInFlight ==
  /\ parsePc = "returned" /\ aborted
  /\ EventsAfterAbort("complete") # {}
  /\ \E k \in 0..(Len(files) - 1) : LogPositions("claim", k) = {}
  /\ returnedPhotos # <<>>

====
